---- MODULE Spec2Model ----
(***************************************************************************)
(* Pure_Path backend: the route enrichment and ranking pipeline.           *)
(*                                                                         *)
(* The module models the expiring caches, the route ranker, the geometry   *)
(* sampler and segmenter, the air-quality aggregation, the place resolver  *)
(* and the route retriever of src/Pure_Path/backend.  Every component has  *)
(* its own specification (SpecCache, SpecRank, ...) over the shared        *)
(* variables; a specification leaves the variables of the other            *)
(* components at their idle values.                                        *)
(*                                                                         *)
(* Conventions.  Python's None is the empty tuple <<>> and a present value *)
(* v is the one-element tuple <<v>>, so that optional values of any type   *)
(* compare.  A Python dict is a function whose DOMAIN is the set of keys   *)
(* present.  Quotients of floats are kept as exact fractions <<num, den>>  *)
(* with den > 0 and compared by cross-multiplication.                      *)
(***************************************************************************)
EXTENDS Integers, Sequences, FiniteSets, TLC

VARIABLES
    \* ---- expiring cache (routes.py cache_get / cache_set)
    cache,        \* one cache instance: key -> <<expiry_ts, value>>
    now,          \* the reading of time.time()
    lastSet,      \* history: key -> <<>> or <<expiry_ts, value>> of the last cache_set
    lastOp,       \* history: the last cache operation, when it ran and what it returned
    \* ---- ranker (routes.py rank_routes_best)
    rankIn,       \* the candidate list handed to rank_routes_best
    rankLimit,    \* its limit argument
    rankScale,    \* the factor the durations of the second call are multiplied by
    rankOut,      \* what rank_routes_best returned for rankIn
    rankOutScaled,\* what it returned for rankIn with every duration multiplied by rankScale
    rankPc,       \* "call" before the two calls, "done" after them
    \* ---- geometry sampler (routes.py sample_points_along_route,
    \*      split_route_into_segments; aqi_service.py sample_points_from_route)
    geomCoords,   \* the coordinate list of the route
    geomMaxPoints,\* the max_points / samples argument of the samplers
    sampledRoutes,\* what routes.sample_points_along_route returned
    sampledService,\* what aqi_service.sample_points_from_route returned
    samplePc,     \* "call" before the samplers ran, "done" after
    geomSegments, \* the segments argument of split_route_into_segments
    segs,         \* the segments it returned, each a coordinate list
    segRanges,    \* history: <<start_idx, end_idx>> of each segment returned
    segPc,        \* "call" before split_route_into_segments ran, "done" after
    \* ---- air-quality aggregation (routes.py get_aqi_for_point,
    \*      aggregate_route_aqi_async; aqi_service.py attach_aqi_to_routes)
    aqiFlow,      \* "aggregate" (routes.py) or "attach" (aqi_service.py)
    aqiCoords,    \* the route's coordinate list, points <<lon, lat>>
    aqiCache,     \* _aqi_cache
    aqiSampled,   \* the sampled points of the call
    taskPc,       \* per sampled point: "ready", "fetching" or "done"
    taskVal,      \* per sampled point: what its lookup returned (None while pending)
    lookups,      \* history: how many point lookups the call has issued
    providerCalls,\* history: how many of them reached the provider
    aqiResult,    \* the aggregate returned: None or Some(<<sum, count>>), the mean sum/count
    aqiPc,        \* "call", "gather" (lookups issued, not all complete), "done" or
                  \* "raised" (the call ended in an exception)
    \* ---- place resolver (routes.py geocode_place; geocoding.py geocode_place)
    geoResolver,  \* "routes" or "geocoding": which geocode_place is called
    placeText,    \* the place argument, a sequence of characters
    geoCache,     \* _geocode_cache
    geoCache0,    \* history: _geocode_cache as the call found it
    geoPc,        \* "start", "nominatim", "photon" (a request is in flight) or "done"
    geoLog,       \* history: the cache lookup and the service queries made, in order
    geoReplies,   \* history: what each service answered
    geoResult,    \* [kind, val]: "return" with None or Some([lat, lon]), or "raise"
    \* ---- route retriever (routes.py osrm_get_routes_cached under navigate_fast;
    \*      routing_service.py get_osrm_routes)
    osrmImpl,     \* "routes" or "routing_service": which retriever is called
    navStartGeo,  \* what geocode_place(start) gave navigate_fast: None or Some(place)
    navEndGeo,    \* what geocode_place(end) gave navigate_fast
    osrmMode,     \* the mode argument: None or Some(text)
    osrmCache,    \* _osrm_cache
    osrmPc,       \* "navigate", "osrm_call", "request", "osrm_done" or "done"
    engineReply,  \* history: what the routing engine answered
    osrmOutcome,  \* [kind, val]: "return" with the routes, or "raise"
    navResponse,  \* [kind, error, routes]: the "response" of navigate_fast, or "error"
    \* ---- enrichment flows (routes.py aqi_for_routes; navigate after its routes)
    enrFlow,      \* "aqi_for_routes" or "navigate"
    enrRoutes,    \* the routes of the payload / of the engine: [id, duration_s, coords]
    enrEnv,       \* what the provider answers for each point while the request runs
    enrCache,     \* _aqi_cache
    enrCache0,    \* history: _aqi_cache as the request found it
    enrOvertaken, \* history: a lookup completed while one started before it had not
    enrPhase,     \* "start", "avg" (first gather), "seg" (second gather) or "done"
    enrTasks,     \* the point lookups of the running gather: [route, seg, point, pc, val]
    enrAvg,       \* avg_values
    enrOut,       \* the "routes" of the response
    \* ---- colour bands (routes.py aqi_to_color; aqi_utils.py aqi_to_color)
    colorAqi,     \* the argument: None or Some(<<n, d>>) for the number n/d
    colorRoutes,  \* what routes.aqi_to_color returned, Pending before the call
    colorUtils,   \* what aqi_utils.aqi_to_color returned, Pending before the call
    \* ---- request head (routes.py navigate_fast and navigate up to the engine call)
    navHandler,   \* "navigate_fast" or "navigate"
    navPlace,     \* <<start, end>>: the two place texts of the request
    navGeoCache,  \* _geocode_cache
    navWhich,     \* the place being resolved: 1 (start) or 2 (end)
    navPc,        \* "geocode", "nominatim", "photon", "osrm", "aqi" or "done"
    navGeo,       \* <<start_geo, end_geo>>: pending, failed or found
    navQueries,   \* the geocoding queries of the request: <<service, q>>
    navEngine,    \* the number of requests sent to the routing engine
    navProvider,  \* the number of points handed to the quality provider
    navReply,     \* the response of the handler
    \* ---- instruction text (routing_service.py _build_instruction; routes.py
    \* build_turn_by_turn_steps)
    instrImpl,    \* "routing_service" or "routes"
    instrStep,    \* the step: [type, modifier, exit, name]
    instrText,    \* the text built for the step, Pending before the call
    \* ---- point quality over time (routes.py get_aqi_for_point, call after call)
    pqCache,      \* _aqi_cache
    pqNow,        \* time.time()
    pqTicks,      \* how often the time has moved on
    pqCalls,      \* the calls made so far: [point, pc, at, seen, open, asked, val]
    pqStores,     \* the answers of the provider as they were stored: [key, val, at]
    \* ---- secondary scorer (scoring.py pick_best_index)
    scRoutes,     \* the list passed to the scorer: [duration_s, max_aqi, aqi, score]
    scIn,         \* the list as it was when the call was made
    scBest,       \* the index returned (Python index), None before the call
    scPc,         \* "call" or "done"
    \* ---- the two ways to the ranked list (navigate vs navigate_fast + aqi_for_routes)
    wayEngine,    \* the alternatives the routing engine answered with
    wayFast,      \* the routes navigate_fast returned, Pending before
    wayTwoStep,   \* the routes aqi_for_routes returned for wayFast, Pending before
    wayFull       \* the routes navigate returned, Pending before

cacheVars == <<cache, now, lastSet, lastOp>>

rankVars == <<rankIn, rankLimit, rankScale, rankOut, rankOutScaled, rankPc>>

geomVars == <<geomCoords, geomMaxPoints, sampledRoutes, sampledService, samplePc,
              geomSegments, segs, segRanges, segPc>>

aqiVars == <<aqiFlow, aqiCoords, aqiCache, aqiSampled, taskPc, taskVal, lookups,
             providerCalls, aqiResult, aqiPc>>

geoVars == <<geoResolver, placeText, geoCache, geoCache0, geoPc, geoLog, geoReplies, geoResult>>

osrmVars == <<osrmImpl, navStartGeo, navEndGeo, osrmMode, osrmCache, osrmPc, engineReply,
              osrmOutcome, navResponse>>

enrichVars == <<enrFlow, enrRoutes, enrEnv, enrCache, enrCache0, enrOvertaken, enrPhase,
               enrTasks, enrAvg, enrOut>>

colorVars == <<colorAqi, colorRoutes, colorUtils>>

navVars == <<navHandler, navPlace, navGeoCache, navWhich, navPc, navGeo, navQueries, navEngine, navProvider, navReply>>

instrVars == <<instrImpl, instrStep, instrText>>

pqVars == <<pqCache, pqNow, pqTicks, pqCalls, pqStores>>

scVars == <<scRoutes, scIn, scBest, scPc>>

wayVars == <<wayEngine, wayFast, wayTwoStep, wayFull>>

vars == <<cacheVars, rankVars, geomVars, aqiVars, geoVars, osrmVars, enrichVars, colorVars, navVars, instrVars, pqVars, scVars, wayVars>>

\* what each component's steps leave alone
notCacheVars == <<rankVars, geomVars, aqiVars, geoVars, osrmVars, enrichVars, colorVars, navVars, instrVars, pqVars, scVars, wayVars>>

notRankVars == <<cacheVars, geomVars, aqiVars, geoVars, osrmVars, enrichVars, colorVars, navVars, instrVars, pqVars, scVars, wayVars>>

notGeomVars == <<cacheVars, rankVars, aqiVars, geoVars, osrmVars, enrichVars, colorVars, navVars, instrVars, pqVars, scVars, wayVars>>

notAqiVars == <<cacheVars, rankVars, geomVars, geoVars, osrmVars, enrichVars, colorVars, navVars, instrVars, pqVars, scVars, wayVars>>

notGeoVars == <<cacheVars, rankVars, geomVars, aqiVars, osrmVars, enrichVars, colorVars, navVars, instrVars, pqVars, scVars, wayVars>>

notOsrmVars == <<cacheVars, rankVars, geomVars, aqiVars, geoVars, enrichVars, colorVars, navVars, instrVars, pqVars, scVars, wayVars>>

notEnrichVars == <<cacheVars, rankVars, geomVars, aqiVars, geoVars, osrmVars, colorVars, navVars, instrVars, pqVars, scVars, wayVars>>

notColorVars == <<cacheVars, rankVars, geomVars, aqiVars, geoVars, osrmVars, enrichVars, navVars, instrVars, pqVars, scVars, wayVars>>

notNavVars == <<cacheVars, rankVars, geomVars, aqiVars, geoVars, osrmVars, enrichVars, colorVars, instrVars, pqVars, scVars, wayVars>>

notInstrVars == <<cacheVars, rankVars, geomVars, aqiVars, geoVars, osrmVars, enrichVars, colorVars, navVars, pqVars, scVars, wayVars>>

notPqVars == <<cacheVars, rankVars, geomVars, aqiVars, geoVars, osrmVars, enrichVars, colorVars, navVars, instrVars, scVars, wayVars>>

notScoreVars == <<cacheVars, rankVars, geomVars, aqiVars, geoVars, osrmVars, enrichVars, colorVars, navVars, instrVars, pqVars, wayVars>>

notWaysVars == <<cacheVars, rankVars, geomVars, aqiVars, geoVars, osrmVars, enrichVars, colorVars, navVars, instrVars, pqVars, scVars>>

None == << >>

Some(v) == <<v>>

\* the value inside a present optional
Val(o) == o[1]

EmptyDict == [k \in {} |-> None]

SeqMin(a, b) == IF a <= b THEN a ELSE b

SeqMax(a, b) == IF a >= b THEN a ELSE b

(***************************************************************************)
(* EXPIRING CACHE                                                          *)
(***************************************************************************)

\* bounds of the cache specification
MaxTime == 4

MaxTtl == 2

CacheKeys == {"k1", "k2"}

CacheVals == {None, Some("v1"), Some("v2")}

\* cache_get with the comparison turned around at the boundary (>= for >)
cache_get_expires_early(c, key, t) ==
    IF key \notin DOMAIN c
    THEN [val |-> None, cache |-> c]
    ELSE IF t >= c[key][1]
         THEN [val |-> None, cache |-> [k \in DOMAIN c \ {key} |-> c[k]]]
         ELSE [val |-> c[key][2], cache |-> c]

\* cache_get(cache, key) read at time t: the value returned and the dict it leaves
cache_get(c, key, t) ==
    IF key \notin DOMAIN c
    THEN [val |-> None, cache |-> c]
    ELSE IF t > c[key][1]
         THEN [val |-> None, cache |-> [k \in DOMAIN c \ {key} |-> c[k]]]
         ELSE [val |-> c[key][2], cache |-> c]

\* cache_set(cache, key, ttl, val) at time t: the dict it leaves
cache_set(c, key, ttl, val, t) ==
    [k \in DOMAIN c \cup {key} |-> IF k = key THEN <<t + ttl, val>> ELSE c[k]]

\* the cache component before any operation
CacheIdle ==
    /\ cache = EmptyDict
    /\ now = 0
    /\ lastSet = [k \in CacheKeys |-> None]
    /\ lastOp = [op |-> "none", key |-> "k1", val |-> None, at |-> 0]

CacheSetStep ==
    \E key \in CacheKeys, val \in CacheVals, ttl \in 0..MaxTtl :
        /\ cache' = cache_set(cache, key, ttl, val, now)
        /\ lastSet' = [lastSet EXCEPT ![key] = <<now + ttl, val>>]
        /\ lastOp' = [op |-> "set", key |-> key, val |-> val, at |-> now]
        /\ UNCHANGED <<now, notCacheVars>>

CacheGetStep ==
    \E key \in CacheKeys :
        /\ cache' = cache_get(cache, key, now).cache
        /\ lastOp' = [op |-> "get", key |-> key, val |-> cache_get(cache, key, now).val,
                      at |-> now]
        /\ UNCHANGED <<now, lastSet, notCacheVars>>

\* time.time() moves on between two operations
CacheTick ==
    /\ now < MaxTime
    /\ now' = now + 1
    /\ UNCHANGED <<cache, lastSet, lastOp, notCacheVars>>

CacheNext == CacheSetStep \/ CacheGetStep \/ CacheTick

\* C1: after cache_set(key, v, ttl) at time t with no later set on the key, a
\* cache_get(key) at any time up to t+ttl returns v, and at any time after
\* t+ttl returns absent and leaves the key out of the cache.
C1_GetAfterSet ==
    (lastOp.op = "get" /\ lastSet[lastOp.key] # None) =>
        LET exp == lastSet[lastOp.key][1]
            v   == lastSet[lastOp.key][2]
        IN  /\ (lastOp.at <= exp => lastOp.val = v)
            /\ (lastOp.at > exp => (lastOp.val = None /\ lastOp.key \notin DOMAIN cache))

\* a get past expiry has just evicted an entry that was set with a present value
C1_Witness ==
    /\ lastOp.op = "get"
    /\ lastSet[lastOp.key] # None
    /\ lastSet[lastOp.key][2] # None
    /\ lastOp.at > lastSet[lastOp.key][1]
    /\ lastOp.val = None
    /\ lastOp.key \notin DOMAIN cache
    /\ \E k \in DOMAIN cache : k # lastOp.key

(***************************************************************************)
(* MULTI-CRITERIA RANKER                                                   *)
(*                                                                         *)
(* A candidate is a record [id, duration_s, avg_aqi]; id stands for the    *)
(* rest of the dict (geometry, steps), duration_s and avg_aqi are optional.*)
(* Within one call every score is a fraction over the same denominator     *)
(* 100 * td * ad (td the duration divisor, ad the AQI divisor), so a score *)
(* is kept as its numerator over that denominator:                         *)
(*   time_ratio                      = tn/td = (100*tn*ad) / (100*td*ad)   *)
(*   0.65*time_ratio + 0.35*aqi_ratio = (65*tn*ad + 35*an*td)/(100*td*ad)  *)
(***************************************************************************)

\* bounds of the ranker specification
MaxRoutes == 3

MaxLimit == 2

MaxScale == 3

\* the value 999 that replaces a ratio whose divisor is zero (routes.py:105, 111)
RatioFallback == 999

RankDurationVals == {None, Some(0), Some(1), Some(2)}

RankAqiVals == {None, Some(0), Some(1), Some(3)}

\* the scenario of the specification: durations 100, 120, 90 with qualities 80, 40, 200
ScenarioRoutes ==
    << [id |-> 1, duration_s |-> Some(100), avg_aqi |-> Some(80)],
       [id |-> 2, duration_s |-> Some(120), avg_aqi |-> Some(40)],
       [id |-> 3, duration_s |-> Some(90),  avg_aqi |-> Some(200)] >>

RECURSIVE MinOf(_)
\* min() of a non-empty sequence of numbers
MinOf(s) ==
    IF Len(s) = 1 THEN s[1] ELSE SeqMin(s[1], MinOf(Tail(s)))

RECURSIVE PresentVals(_, _)
\* [r.get(field) for r in routes if r.get(field) is not None]
PresentVals(routes, field) ==
    IF routes = << >> THEN << >>
    ELSE IF routes[1][field] = None THEN PresentVals(Tail(routes), field)
         ELSE <<Val(routes[1][field])>> \o PresentVals(Tail(routes), field)

\* min_duration = min(durations) if durations else 1
min_duration(routes) ==
    IF PresentVals(routes, "duration_s") = << >> THEN 1
    ELSE MinOf(PresentVals(routes, "duration_s"))

\* min_aqi = min(aqis) if aqis else None
min_aqi(routes) ==
    IF PresentVals(routes, "avg_aqi") = << >> THEN None
    ELSE Some(MinOf(PresentVals(routes, "avg_aqi")))

\* duration = float(r.get("duration_s") or 0)
duration_of(r) == IF r.duration_s = None THEN 0 ELSE Val(r.duration_s)

\* the ratio without its division by the minimum
time_ratio_unnormalised(duration, min_d) == <<duration, 1>>

\* time_ratio = duration / min_duration if min_duration else 999, as <<tn, td>>
time_ratio(duration, min_d) ==
    IF min_d # 0 THEN <<duration, min_d>> ELSE <<RatioFallback, 1>>

\* aqi_ratio = float(avg_aqi) / min_aqi if min_aqi else 999, as <<an, ad>>
aqi_ratio(aqi, min_a) ==
    IF min_a # 0 THEN <<aqi, min_a>> ELSE <<RatioFallback, 1>>

\* the AQI divisor ad of the call (1 when no ratio is formed or the fallback is used)
aqi_divisor(min_a) == IF min_a = None \/ Val(min_a) = 0 THEN 1 ELSE Val(min_a)

\* the score that never takes the quality branch
route_score_time_only(r, min_d, min_a) ==
    100 * time_ratio(duration_of(r), min_d)[1] * aqi_divisor(min_a)

\* the score of one candidate (routes.py:104-112): numerator over 100 * td * ad
route_score(r, min_d, min_a) ==
    LET tr == time_ratio(duration_of(r), min_d)
    IN  IF r.avg_aqi = None \/ min_a = None
        THEN 100 * tr[1] * aqi_divisor(min_a)
        ELSE 65 * tr[1] * aqi_divisor(min_a)
                 + 35 * aqi_ratio(Val(r.avg_aqi), Val(min_a))[1] * tr[2]

RECURSIVE insert_before_ties(_, _)
\* x put in front of the entries whose score equals its own
insert_before_ties(sorted, x) ==
    IF sorted = << >> THEN <<x>>
    ELSE IF sorted[1][1] < x[1] THEN <<sorted[1]>> \o insert_before_ties(Tail(sorted), x)
         ELSE <<x>> \o sorted

RECURSIVE InsertStable(_, _)
\* x = <<score, r>> put behind every entry of the sorted list whose score is <= its own
InsertStable(sorted, x) ==
    IF sorted = << >> THEN <<x>>
    ELSE IF sorted[1][1] <= x[1] THEN <<sorted[1]>> \o InsertStable(Tail(sorted), x)
         ELSE <<x>> \o sorted

RECURSIVE SortStable(_)
\* scored.sort(key=lambda x: x[0]): Python's sort is stable
SortStable(scored) ==
    IF scored = << >> THEN << >>
    ELSE InsertStable(SortStable(SubSeq(scored, 1, Len(scored) - 1)), scored[Len(scored)])

\* the Python slice s[:limit]
SliceTo(s, limit) ==
    IF limit >= 0 THEN SubSeq(s, 1, SeqMin(limit, Len(s)))
    ELSE SubSeq(s, 1, SeqMax(0, Len(s) + limit))

\* rank_routes_best(routes_out, limit)
rank_routes_best(routes_out, limit) ==
    IF routes_out = << >> THEN << >>
    ELSE LET min_d  == min_duration(routes_out)
             min_a  == min_aqi(routes_out)
             scored == [i \in 1..Len(routes_out) |->
                           <<route_score(routes_out[i], min_d, min_a), routes_out[i]>>]
             sorted == SortStable(scored)
         IN  SliceTo([i \in 1..Len(sorted) |-> sorted[i][2]], limit)

\* every duration multiplied by c
ScaleDurations(routes, c) ==
    [i \in 1..Len(routes) |->
        [routes[i] EXCEPT !.duration_s =
            IF routes[i].duration_s = None THEN None ELSE Some(c * Val(routes[i].duration_s))]]

\* the candidate lists of at most MaxRoutes entries over the value grids
RankGrid ==
    UNION { [1..n -> RankDurationVals \X RankAqiVals] : n \in 0..MaxRoutes }

RankInputs ==
    { [i \in 1..Len(g) |-> [id |-> i, duration_s |-> g[i][1], avg_aqi |-> g[i][2]]] :
        g \in RankGrid } \cup {ScenarioRoutes}

RankIdle ==
    /\ rankIn = << >>
    /\ rankLimit = 0
    /\ rankScale = 1
    /\ rankOut = << >>
    /\ rankOutScaled = << >>
    /\ rankPc = "idle"

RankInit ==
    /\ rankIn \in RankInputs
    /\ rankLimit = 0
    /\ rankScale = 1
    /\ rankOut = << >>
    /\ rankOutScaled = << >>
    /\ rankPc = "call"

\* rank_routes_best is called on the candidates and on the rescaled candidates
RankStep ==
    /\ rankPc = "call"
    /\ \E limit \in 0..MaxLimit, c \in 2..MaxScale :
        /\ rankLimit' = limit
        /\ rankScale' = c
        /\ rankOut' = rank_routes_best(rankIn, limit)
        /\ rankOutScaled' = rank_routes_best(ScaleDurations(rankIn, c), limit)
    /\ rankPc' = "done"
    /\ UNCHANGED <<rankIn, notRankVars>>

RankNext == RankStep

Ids(routes) == [i \in 1..Len(routes) |-> routes[i].id]

AllHave(routes, field) == \A i \in 1..Len(routes) : routes[i][field] # None

NoneHas(routes, field) == \A i \in 1..Len(routes) : routes[i][field] = None

\* 0.65*(duration/minDuration) + 0.35*(avgAqi/minAqi) over the denominator
\* 100 * minDuration * minAqi, for a candidate that carries both values
CombinedScore(r, minD, minA) == 65 * Val(r.duration_s) * minA + 35 * Val(r.avg_aqi) * minD

\* C2: when every candidate carries avgAqi (and the two ratios are defined: every
\* duration is present, minDuration > 0 and minAqi > 0), the candidates returned are
\* in ascending order of 0.65*(duration/minDuration) + 0.35*(avgAqi/minAqi) and none
\* left out scores below a returned one; durations [100,120,90] with qualities
\* [80,40,200] and limit 2 return the 120/40 candidate first, the 100/80 second.
C2_CombinedOrder ==
    (rankPc = "done" /\ rankIn # << >>
       /\ AllHave(rankIn, "avg_aqi") /\ AllHave(rankIn, "duration_s")
       /\ MinOf(PresentVals(rankIn, "duration_s")) > 0
       /\ MinOf(PresentVals(rankIn, "avg_aqi")) > 0) =>
        LET minD == MinOf(PresentVals(rankIn, "duration_s"))
            minA == MinOf(PresentVals(rankIn, "avg_aqi"))
            out  == Ids(rankOut)
            kept == {out[i] : i \in 1..Len(out)}
        IN  /\ \A i, j \in 1..Len(rankOut) :
                  i < j => CombinedScore(rankOut[i], minD, minA)
                             <= CombinedScore(rankOut[j], minD, minA)
            /\ \A i \in 1..Len(rankOut) : rankOut[i] = rankIn[out[i]]
            /\ \A i \in 1..Len(rankIn), j \in 1..Len(rankOut) :
                  i \notin kept => CombinedScore(rankIn[i], minD, minA)
                                     >= CombinedScore(rankOut[j], minD, minA)
            /\ Len(rankOut) = SeqMin(rankLimit, Len(rankIn))
            /\ (rankIn = ScenarioRoutes /\ rankLimit = 2 => out = <<2, 1>>)

\* the scenario has been ranked with limit 2
C2_Witness ==
    /\ rankPc = "done"
    /\ rankIn = ScenarioRoutes
    /\ rankLimit = 2
    /\ Ids(rankOut) = <<2, 1>>

RECURSIVE insert_by_duration_before_ties(_, _)
\* r put in front of the entries whose duration equals its own
insert_by_duration_before_ties(sorted, r) ==
    IF sorted = << >> THEN <<r>>
    ELSE IF duration_of(sorted[1]) < duration_of(r)
         THEN <<sorted[1]>> \o insert_by_duration_before_ties(Tail(sorted), r)
         ELSE <<r>> \o sorted

RECURSIVE InsertByDuration(_, _)
\* r put behind every entry of the sorted list whose duration is <= its own
InsertByDuration(sorted, r) ==
    IF sorted = << >> THEN <<r>>
    ELSE IF duration_of(sorted[1]) <= duration_of(r)
         THEN <<sorted[1]>> \o InsertByDuration(Tail(sorted), r)
         ELSE <<r>> \o sorted

RECURSIVE SortedByDuration(_)
\* the candidates in ascending order of duration, ties in their original order
\* (a missing duration counts as 0)
SortedByDuration(routes) ==
    IF routes = << >> THEN << >>
    ELSE InsertByDuration(SortedByDuration(SubSeq(routes, 1, Len(routes) - 1)),
                          routes[Len(routes)])

\* C3: when no candidate has avgAqi, the order returned equals the candidates
\* sorted by duration ascending (stable), for all durations, zero or missing included.
C3_DurationOrder ==
    (rankPc = "done" /\ NoneHas(rankIn, "avg_aqi")) =>
        rankOut = SliceTo(SortedByDuration(rankIn), rankLimit)

\* C3 where it holds: no candidate has avgAqi and the smallest duration present is not 0
C3_DurationOrderNonZero ==
    (rankPc = "done" /\ NoneHas(rankIn, "avg_aqi") /\ min_duration(rankIn) # 0) =>
        rankOut = SliceTo(SortedByDuration(rankIn), rankLimit)

\* C4: multiplying every duration by a positive factor leaves the order returned
\* (and so the selected top-limit set) unchanged.
C4_ScaleInvariant ==
    rankPc = "done" => Ids(rankOutScaled) = Ids(rankOut)

\* a ranking of candidates with distinct positive durations and qualities in which
\* the slower candidate comes first, and the same ranking after the rescaling
C4_Witness ==
    /\ rankPc = "done"
    /\ rankScale >= 2
    /\ Len(rankOut) >= 2
    /\ AllHave(rankIn, "avg_aqi") /\ AllHave(rankIn, "duration_s")
    /\ duration_of(rankOut[1]) > duration_of(rankOut[2])
    /\ duration_of(rankOut[2]) > 0
    /\ Ids(rankOutScaled) = Ids(rankOut)

\* some candidate of the list lacks the field
SomeLacks(routes, field) == \E i \in 1..Len(routes) : routes[i][field] = None

\* C19 as stated: when avgAqi is absent for any candidate, every candidate is scored
\* by its timeRatio alone, so the candidates come back in duration order (taken
\* where the ratios are defined: every duration present, the smallest not 0, and
\* every avgAqi present above 0)
C19_AnyAbsentTimeOnly ==
    (rankPc = "done" /\ SomeLacks(rankIn, "avg_aqi")
       /\ AllHave(rankIn, "duration_s") /\ min_duration(rankIn) # 0
       /\ \A i \in 1..Len(rankIn) : rankIn[i].avg_aqi = None \/ Val(rankIn[i].avg_aqi) > 0) =>
        rankOut = SliceTo(SortedByDuration(rankIn), rankLimit)

\* the score rank_routes_best gives candidate r of the list
ScoreIn(routes, r) == route_score(r, min_duration(routes), min_aqi(routes))

\* C20: for a list of n candidates and a limit >= 0, rank_routes_best returns
\* min(limit, n) candidates, each a candidate of the list and none twice, in
\* ascending score, candidates of equal score in their original order, and no
\* candidate left out scores strictly below a returned one
C20_RankedSlice ==
    rankPc = "done" =>
        LET out  == Ids(rankOut)
            kept == {out[i] : i \in 1..Len(out)}
        IN  /\ Len(rankOut) = SeqMin(rankLimit, Len(rankIn))
            /\ \A i \in 1..Len(rankOut) : out[i] \in 1..Len(rankIn) /\ rankOut[i] = rankIn[out[i]]
            /\ \A i, j \in 1..Len(rankOut) : i # j => out[i] # out[j]
            /\ \A i, j \in 1..Len(rankOut) :
                  i < j => /\ ScoreIn(rankIn, rankOut[i]) <= ScoreIn(rankIn, rankOut[j])
                           /\ (ScoreIn(rankIn, rankOut[i]) = ScoreIn(rankIn, rankOut[j])
                                  => out[i] < out[j])
            /\ \A k \in 1..Len(rankIn), j \in 1..Len(rankOut) :
                  k \notin kept => ScoreIn(rankIn, rankIn[k]) >= ScoreIn(rankIn, rankOut[j])

\* three candidates ranked with limit 2: the two returned have equal scores and
\* were not first and second in the list, the one left out scores above them
C20_Witness ==
    /\ rankPc = "done" /\ Len(rankIn) = 3 /\ rankLimit = 2
    /\ Ids(rankOut) = <<2, 3>>
    /\ ScoreIn(rankIn, rankOut[1]) = ScoreIn(rankIn, rankOut[2])
    /\ ScoreIn(rankIn, rankIn[1]) > ScoreIn(rankIn, rankOut[2])

(***************************************************************************)
(* ROUTE GEOMETRY SAMPLER                                                  *)
(*                                                                         *)
(* A coordinate list is a sequence of points; Python index i is TLA+ index *)
(* i + 1.  The samplers are called with max_points >= 1 (6 and 2 in the    *)
(* program).                                                               *)
(***************************************************************************)

\* bounds of the geometry specification
MaxCoords == 5

MaxSamplePoints == 3

MaxSegments == 3

GeomPoints == {"a", "b", "c", "d", "e"}

\* the Python slice coords[::step], step >= 1
Stride(coords, step) ==
    [j \in 1..((Len(coords) + step - 1) \div step) |-> coords[(j - 1) * step + 1]]

\* sampled with coords[-1] appended when sampled[-1] != coords[-1]
WithEndpoint(sampled, coords) ==
    IF sampled[Len(sampled)] # coords[Len(coords)]
    THEN Append(sampled, coords[Len(coords)])
    ELSE sampled

\* the sample cut one short and closed with the route's final coordinate
sample_endpoint_kept(coords, max_points) ==
    IF coords = << >> THEN << >>
    ELSE IF Len(coords) <= max_points THEN coords
    ELSE Append(SliceTo(Stride(coords, SeqMax(1, Len(coords) \div max_points)),
                        max_points - 1),
                coords[Len(coords)])

\* routes.py sample_points_along_route(coords, max_points)
sample_points_along_route(coords, max_points) ==
    IF coords = << >> THEN << >>
    ELSE IF Len(coords) <= max_points THEN coords
    ELSE SliceTo(WithEndpoint(Stride(coords, SeqMax(1, Len(coords) \div max_points)), coords),
                 max_points)

\* aqi_service.py sample_points_from_route(coords, samples)
sample_points_from_route(coords, samples) ==
    IF coords = << >> \/ Len(coords) < 2 THEN << >>
    ELSE SliceTo(WithEndpoint(Stride(coords, SeqMax(1, Len(coords) \div samples)), coords),
                 samples)

\* the start index taken one past the boundary of the segment before
seg_start_idx_past_boundary(i, n, segments) ==
    (i * (n - 1)) \div segments + (IF i > 0 THEN 1 ELSE 0)

\* start_idx = int(i * (n - 1) / segments)
seg_start_idx(i, n, segments) == (i * (n - 1)) \div segments

\* the end index taken one short of the boundary
seg_end_idx_exclusive(i, n, segments) ==
    LET end_idx == (((i + 1) * (n - 1)) \div segments) - 1
    IN  IF end_idx <= seg_start_idx(i, n, segments)
        THEN SeqMin(n - 1, seg_start_idx(i, n, segments) + 1)
        ELSE end_idx

\* end_idx = int((i + 1) * (n - 1) / segments), moved to start_idx + 1 (at most
\* n - 1) when it is not beyond start_idx
seg_end_idx(i, n, segments) ==
    LET end_idx == ((i + 1) * (n - 1)) \div segments
    IN  IF end_idx <= seg_start_idx(i, n, segments)
        THEN SeqMin(n - 1, seg_start_idx(i, n, segments) + 1)
        ELSE end_idx

RECURSIVE segment_ranges(_, _, _)
\* the <<start_idx, end_idx>> of the segments split_route_into_segments appends for
\* i = 0 .. upto - 1: those whose slice coords[start_idx:end_idx + 1] has >= 2 points
segment_ranges(n, segments, upto) ==
    IF upto <= 0 THEN << >>
    ELSE LET i == upto - 1
             r == <<seg_start_idx(i, n, segments), seg_end_idx(i, n, segments)>>
         IN  IF r[2] - r[1] + 1 >= 2
             THEN Append(segment_ranges(n, segments, upto - 1), r)
             ELSE segment_ranges(n, segments, upto - 1)

\* the ranges of the whole call (none for a list of fewer than 2 points)
split_ranges(coords, segments) ==
    IF coords = << >> \/ Len(coords) < 2 THEN << >>
    ELSE segment_ranges(Len(coords), segments, segments)

\* routes.py split_route_into_segments(coords, segments)
split_route_into_segments(coords, segments) ==
    [j \in 1..Len(split_ranges(coords, segments)) |->
        SubSeq(coords, split_ranges(coords, segments)[j][1] + 1,
                       split_ranges(coords, segments)[j][2] + 1)]

GeomInputs == UNION { [1..n -> GeomPoints] : n \in 0..MaxCoords }

GeomIdle ==
    /\ geomCoords = << >>
    /\ geomMaxPoints = 1
    /\ sampledRoutes = << >>
    /\ sampledService = << >>
    /\ samplePc = "idle"
    /\ geomSegments = 1
    /\ segs = << >>
    /\ segRanges = << >>
    /\ segPc = "idle"

GeomInit ==
    /\ geomCoords \in GeomInputs
    /\ geomMaxPoints = 1
    /\ sampledRoutes = << >>
    /\ sampledService = << >>
    /\ samplePc = "call"
    /\ geomSegments = 1
    /\ segs = << >>
    /\ segRanges = << >>
    /\ segPc = "call"

\* both samplers are called on the route with the same max_points
SampleStep ==
    /\ samplePc = "call"
    /\ \E max_points \in 1..MaxSamplePoints :
        /\ geomMaxPoints' = max_points
        /\ sampledRoutes' = sample_points_along_route(geomCoords, max_points)
        /\ sampledService' = sample_points_from_route(geomCoords, max_points)
    /\ samplePc' = "done"
    /\ UNCHANGED <<geomCoords, geomSegments, segs, segRanges, segPc, notGeomVars>>

\* split_route_into_segments is called on the route
SegmentStep ==
    /\ segPc = "call"
    /\ \E segments \in 1..MaxSegments :
        /\ geomSegments' = segments
        /\ segs' = split_route_into_segments(geomCoords, segments)
        /\ segRanges' = split_ranges(geomCoords, segments)
    /\ segPc' = "done"
    /\ UNCHANGED <<geomCoords, geomMaxPoints, sampledRoutes, sampledService, samplePc,
                   notGeomVars>>

GeomNext == SampleStep \/ SegmentStep

\* at most segmentCount segments, each of at least 2 points and each the slice of
\* its index range, and the ranges together are the whole index range 0..n-1
SegmentsCover ==
    /\ Len(segs) <= geomSegments
    /\ Len(segRanges) = Len(segs)
    /\ \A j \in 1..Len(segs) :
          /\ Len(segs[j]) >= 2
          /\ segs[j] = SubSeq(geomCoords, segRanges[j][1] + 1, segRanges[j][2] + 1)
    /\ UNION { segRanges[j][1]..segRanges[j][2] : j \in 1..Len(segs) }
          = 0..(Len(geomCoords) - 1)

\* C5 as stated: for every non-empty coordinate list, a list of length 1 included,
\* and every segmentCount >= 1, segment returns at most segmentCount segments of at
\* least 2 points each whose index ranges together are 0..n-1.
C5_Original ==
    (segPc = "done" /\ Len(geomCoords) >= 1 /\ geomSegments >= 1) => SegmentsCover

\* C5 as amended: the same for every coordinate list of at least 2 points.
C5_SegmentsCover ==
    (segPc = "done" /\ Len(geomCoords) >= 2 /\ geomSegments >= 1) => SegmentsCover

\* a route with fewer intervals than segments has been split: every segment had its
\* end index moved and all segmentCount segments were returned
C5_Witness ==
    /\ segPc = "done"
    /\ Len(geomCoords) = 2
    /\ geomSegments = 3
    /\ Len(segs) = 3
    /\ SegmentsCover

\* the first segment starts at index 0, the last ends at index n-1, and each segment
\* starts at the index where the segment before it ends
Contiguous ==
    /\ segRanges # << >>
    /\ segRanges[1][1] = 0
    /\ segRanges[Len(segRanges)][2] = Len(geomCoords) - 1
    /\ \A j \in 1..(Len(segRanges) - 1) : segRanges[j + 1][1] = segRanges[j][2]
    /\ \A j \in 1..Len(segs) :
          segs[j] = SubSeq(geomCoords, segRanges[j][1] + 1, segRanges[j][2] + 1)

\* C21 as stated: for every list of n >= 2 coordinates and every segmentCount >= 1
\* the segments returned are contiguous and overlap only at their boundaries
C21_Original ==
    (segPc = "done" /\ Len(geomCoords) >= 2 /\ geomSegments >= 1) => Contiguous

\* C21 as amended: the same for every list with at least segmentCount intervals,
\* n - 1 >= segmentCount; there segmentCount segments are returned
C21_Contiguous ==
    (segPc = "done" /\ Len(geomCoords) >= 2 /\ geomSegments >= 1
       /\ Len(geomCoords) - 1 >= geomSegments) =>
        Contiguous /\ Len(segs) = geomSegments

\* five coordinates split into three segments: 0..1, 1..2, 2..4
C21_Witness ==
    /\ segPc = "done"
    /\ Len(geomCoords) = 5 /\ geomSegments = 3
    /\ segRanges = << <<0, 1>>, <<1, 2>>, <<2, 4>> >>
    /\ Contiguous

\* C6: for every coordinate list of length at most maxPoints, lengths 0 and 1
\* included, sample returns the input list unchanged (both samplers).
C6_ShortUnchanged ==
    (samplePc = "done" /\ Len(geomCoords) <= geomMaxPoints) =>
        /\ sampledRoutes = geomCoords
        /\ sampledService = geomCoords

\* C6 for the sampler of routes.py alone
C6_ShortUnchangedRoutes ==
    (samplePc = "done" /\ Len(geomCoords) <= geomMaxPoints) => sampledRoutes = geomCoords

\* C6 for the sampler of aqi_service.py on the lists it does not refuse
C6_ShortUnchangedService ==
    (samplePc = "done" /\ Len(geomCoords) <= geomMaxPoints /\ Len(geomCoords) # 1) =>
        sampledService = geomCoords

\* no coordinate occurs twice in the list
PairwiseDistinct(coords) ==
    \A i, j \in 1..Len(coords) : i # j => coords[i] # coords[j]

\* out is coords[k * stride] for k = 0..max_points-1, stride = len \div max_points
EveryStride(out, coords, max_points) ==
    /\ Len(out) = max_points
    /\ \A k \in 0..(max_points - 1) :
          out[k + 1] = coords[k * (Len(coords) \div max_points) + 1]

\* C25: for a list of more than maxPoints pairwise-distinct coordinates both
\* samplers return exactly maxPoints entries, coords[k*stride] for
\* k = 0..maxPoints-1 with stride = floor(len/maxPoints); the first coordinate
\* is among them and the final coordinate is not.
C25_StrideSample ==
    (samplePc = "done" /\ Len(geomCoords) > geomMaxPoints /\ PairwiseDistinct(geomCoords)) =>
        \A out \in {sampledRoutes, sampledService} :
            /\ EveryStride(out, geomCoords, geomMaxPoints)
            /\ out[1] = geomCoords[1]
            /\ \A j \in 1..Len(out) : out[j] # geomCoords[Len(geomCoords)]

\* a sample of two or more points with a stride of two or more in which the
\* slice misses the final coordinate, so that it is appended and then cut off
C25_Witness ==
    /\ samplePc = "done"
    /\ PairwiseDistinct(geomCoords)
    /\ geomMaxPoints >= 2
    /\ Len(geomCoords) \div geomMaxPoints >= 2
    /\ (Len(geomCoords) - 1) % (Len(geomCoords) \div geomMaxPoints) # 0
    /\ Len(WithEndpoint(Stride(geomCoords, Len(geomCoords) \div geomMaxPoints), geomCoords))
         = geomMaxPoints + 1
    /\ Len(sampledRoutes) = geomMaxPoints

(***************************************************************************)
(* ENVIRONMENTAL SAMPLER                                                   *)
(*                                                                         *)
(* A point is <<lon, lat>> in units of 0.00001 degree.  The provider       *)
(* (get_aqi_for_point_sync, fetch_aqi_for_point_waqi) is an external       *)
(* service: each call answers with a reading or with None.                 *)
(*                                                                         *)
(* asyncio.gather starts the lookups of one call in list order, each       *)
(* running up to its await of the provider thread; the results of the      *)
(* threads are taken afterwards, in any order.  attach_aqi_to_routes       *)
(* fetches the points one after the other.                                 *)
(***************************************************************************)

\* bound of the air-quality specification: the longest route
MaxRoutePts == 7

MAX_SAMPLE_POINTS == 6

AQI_TTL == 30 * 60

AqiReadings == {60, 70, 80}

ProviderAnswers == {None} \cup {Some(v) : v \in AqiReadings}

\* the i-th point of the route; the second point lies within 0.0001 degree of the first
RoutePoint(i) ==
    IF i = 2 THEN <<7720002, 2861002>>
    ELSE <<7720000 + 20 * (i - 1), 2861000 + 20 * (i - 1)>>

RoutePath(n) == [i \in 1..n |-> RoutePoint(i)]

\* a point of a payload whose latitude is not a number
BadPoint == <<7799999, "x">>

\* the routes of n points: the path, and the path with its third point malformed
RoutesOf(n) ==
    {RoutePath(n)} \cup
    (IF n >= 3 THEN { [i \in 1..n |-> IF i = 3 THEN BadPoint ELSE RoutePoint(i)] } ELSE {})

\* f"{lat:.4f},{lon:.4f}" formats: both coordinates are numbers
formats(p) == p # BadPoint

\* a non-negative coordinate rounded to 4 decimals, in units of 0.0001 degree
Round4(x) == (x + 5) \div 10

\* key = f"{lat:.4f},{lon:.4f}"
aqi_key(lat, lon) == <<Round4(lat), Round4(lon)>>

\* the key of a point <<lon, lat>>
PointKey(p) == aqi_key(p[2], p[1])

RECURSIVE SumOf(_)
SumOf(s) == IF s = << >> THEN 0 ELSE s[1] + SumOf(Tail(s))

RECURSIVE PresentOnly(_)
\* [float(v) for v in values if v is not None]
PresentOnly(values) ==
    IF values = << >> THEN << >>
    ELSE IF values[1] = None THEN PresentOnly(Tail(values))
         ELSE <<Val(values[1])>> \o PresentOnly(Tail(values))

\* the mean taken over every sample, the failed ones included
mean_over_all_samples(values) ==
    IF PresentOnly(values) = << >> THEN None
    ELSE Some(<<SumOf(PresentOnly(values)), Len(values)>>)

\* values = [v for v in values if v is not None]; None if not values
\* else sum(values) / len(values)
mean_of_present(values) ==
    IF PresentOnly(values) = << >> THEN None
    ELSE Some(<<SumOf(PresentOnly(values)), Len(PresentOnly(values))>>)

\* the states _aqi_cache can be in when the call starts: empty, a fresh reading for
\* the third point, a stored None for it, an expired reading for it
AqiCacheStarts ==
    { EmptyDict,
      [k \in {PointKey(RoutePoint(3))} |-> <<AQI_TTL, Some(60)>>],
      [k \in {PointKey(RoutePoint(3))} |-> <<AQI_TTL, None>>],
      [k \in {PointKey(RoutePoint(3))} |-> <<0 - 1, Some(60)>>] }

AqiIdle ==
    /\ aqiFlow = "idle"
    /\ aqiCoords = << >>
    /\ aqiCache = EmptyDict
    /\ aqiSampled = << >>
    /\ taskPc = << >>
    /\ taskVal = << >>
    /\ lookups = 0
    /\ providerCalls = 0
    /\ aqiResult = None
    /\ aqiPc = "idle"

AqiInit ==
    /\ aqiFlow \in {"aggregate", "attach"}
    /\ \E n \in 0..MaxRoutePts : aqiCoords \in RoutesOf(n)
    /\ aqiCache \in AqiCacheStarts
    /\ (aqiFlow = "attach" => aqiCache = EmptyDict)
    /\ aqiSampled = << >>
    /\ taskPc = << >>
    /\ taskVal = << >>
    /\ lookups = 0
    /\ providerCalls = 0
    /\ aqiResult = None
    /\ aqiPc = "call"

\* aggregate_route_aqi_async up to its gather: the route is sampled and one
\* get_aqi_for_point is created per sampled point; no sample, None at once
AggregateCall ==
    /\ aqiFlow = "aggregate" /\ aqiPc = "call"
    /\ aqiSampled' = sample_points_along_route(aqiCoords, MAX_SAMPLE_POINTS)
    /\ taskPc' = [i \in 1..Len(aqiSampled') |-> "ready"]
    /\ taskVal' = [i \in 1..Len(aqiSampled') |-> None]
    /\ aqiPc' = IF aqiSampled' = << >> THEN "done" ELSE "gather"
    /\ UNCHANGED <<aqiFlow, aqiCoords, aqiCache, lookups, providerCalls, aqiResult,
                   notAqiVars>>

\* get_aqi_for_point up to its await: the key is formatted, which raises for a
\* coordinate that is not a number; the cache is read; a hit returns, a miss hands
\* the point to the provider thread
LookupStart(i) ==
    /\ aqiFlow = "aggregate" /\ aqiPc = "gather"
    /\ taskPc[i] = "ready"
    /\ \A j \in 1..(i - 1) : taskPc[j] # "ready"
    /\ IF ~formats(aqiSampled[i])
       THEN /\ taskPc' = [taskPc EXCEPT ![i] = "raised"]
            /\ UNCHANGED <<aqiCache, taskVal, providerCalls>>
       ELSE LET got == cache_get(aqiCache, PointKey(aqiSampled[i]), now)
            IN  /\ aqiCache' = got.cache
                /\ IF got.val # None
                   THEN /\ taskPc' = [taskPc EXCEPT ![i] = "done"]
                        /\ taskVal' = [taskVal EXCEPT ![i] = got.val]
                        /\ UNCHANGED providerCalls
                   ELSE /\ taskPc' = [taskPc EXCEPT ![i] = "fetching"]
                        /\ providerCalls' = providerCalls + 1
                        /\ UNCHANGED taskVal
    /\ lookups' = lookups + 1
    /\ UNCHANGED <<aqiFlow, aqiCoords, aqiSampled, aqiResult, aqiPc, notAqiVars>>

\* get_aqi_for_point after its await: the provider's answer is stored and returned
LookupComplete(i) ==
    /\ aqiFlow = "aggregate" /\ aqiPc \in {"gather", "raised"}
    /\ taskPc[i] = "fetching"
    /\ \A j \in 1..Len(taskPc) : taskPc[j] # "ready"
    /\ \E aqi \in ProviderAnswers :
        /\ aqiCache' = cache_set(aqiCache, PointKey(aqiSampled[i]), AQI_TTL, aqi, now)
        /\ taskVal' = [taskVal EXCEPT ![i] = aqi]
    /\ taskPc' = [taskPc EXCEPT ![i] = "done"]
    /\ UNCHANGED <<aqiFlow, aqiCoords, aqiSampled, lookups, providerCalls, aqiResult,
                   aqiPc, notAqiVars>>

\* the gather of aggregate_route_aqi_async passes the exception of a lookup on to
\* its caller as soon as the lookups have started; the other lookups run on
AggregateRaise ==
    /\ aqiFlow = "aggregate" /\ aqiPc = "gather"
    /\ \A j \in 1..Len(taskPc) : taskPc[j] # "ready"
    /\ \E j \in 1..Len(taskPc) : taskPc[j] = "raised"
    /\ aqiPc' = "raised"
    /\ UNCHANGED <<aqiFlow, aqiCoords, aqiCache, aqiSampled, taskPc, taskVal, lookups,
                   providerCalls, aqiResult, notAqiVars>>

\* aggregate_route_aqi_async after its gather
AggregateReturn ==
    /\ aqiFlow = "aggregate" /\ aqiPc = "gather"
    /\ \A j \in 1..Len(taskPc) : taskPc[j] = "done"
    /\ aqiResult' = mean_of_present(taskVal)
    /\ aqiPc' = "done"
    /\ UNCHANGED <<aqiFlow, aqiCoords, aqiCache, aqiSampled, taskPc, taskVal, lookups,
                   providerCalls, notAqiVars>>

\* attach_aqi_to_routes for one route: the route is sampled
AttachCall ==
    /\ aqiFlow = "attach" /\ aqiPc = "call"
    /\ aqiSampled' = sample_points_from_route(aqiCoords, MAX_SAMPLE_POINTS)
    /\ taskPc' = [i \in 1..Len(aqiSampled') |-> "ready"]
    /\ taskVal' = [i \in 1..Len(aqiSampled') |-> None]
    /\ aqiPc' = "gather"
    /\ UNCHANGED <<aqiFlow, aqiCoords, aqiCache, lookups, providerCalls, aqiResult,
                   notAqiVars>>

\* one turn of its loop over the sampled points: fetch_aqi_for_point_waqi
AttachFetch(i) ==
    /\ aqiFlow = "attach" /\ aqiPc = "gather"
    /\ taskPc[i] = "ready"
    /\ \A j \in 1..(i - 1) : taskPc[j] = "done"
    /\ \E aqi \in ProviderAnswers : taskVal' = [taskVal EXCEPT ![i] = aqi]
    /\ taskPc' = [taskPc EXCEPT ![i] = "done"]
    /\ lookups' = lookups + 1
    /\ providerCalls' = providerCalls + 1
    /\ UNCHANGED <<aqiFlow, aqiCoords, aqiCache, aqiSampled, aqiResult, aqiPc, notAqiVars>>

\* avg_aqi = sum(aqi_values) / len(aqi_values) if aqi_values else None
AttachReturn ==
    /\ aqiFlow = "attach" /\ aqiPc = "gather"
    /\ \A j \in 1..Len(taskPc) : taskPc[j] = "done"
    /\ aqiResult' = mean_of_present(taskVal)
    /\ aqiPc' = "done"
    /\ UNCHANGED <<aqiFlow, aqiCoords, aqiCache, aqiSampled, taskPc, taskVal, lookups,
                   providerCalls, notAqiVars>>

AqiNext ==
    \/ AggregateCall
    \/ \E i \in 1..MAX_SAMPLE_POINTS : i <= Len(taskPc) /\ LookupStart(i)
    \/ \E i \in 1..MAX_SAMPLE_POINTS : i <= Len(taskPc) /\ LookupComplete(i)
    \/ AggregateRaise
    \/ AggregateReturn
    \/ AttachCall
    \/ \E i \in 1..MAX_SAMPLE_POINTS : i <= Len(taskPc) /\ AttachFetch(i)
    \/ AttachReturn

\* the lookups that succeeded
Successes == { i \in 1..Len(taskVal) : taskVal[i] # None }

RECURSIVE SumOver(_)
SumOver(S) ==
    IF S = {} THEN 0
    ELSE LET i == CHOOSE x \in S : TRUE IN Val(taskVal[i]) + SumOver(S \ {i})

\* C7: routeQuality issues one lookup per sampled point, at most 6, and returns the
\* arithmetic mean of exactly the lookups that succeeded, the sum divided by the
\* number of successes; it returns absent exactly when no lookup succeeded.
C7_MeanOfSuccesses ==
    aqiPc = "done" =>
        /\ lookups = Len(aqiSampled)
        /\ lookups <= 6
        /\ (aqiResult = None <=> Successes = {})
        /\ (Successes # {} =>
              aqiResult = Some(<<SumOver(Successes), Cardinality(Successes)>>))

\* the samples [60, 70, absent, 80] have been aggregated to 210 / 3 = 70
C7_Witness ==
    /\ aqiPc = "done"
    /\ aqiFlow = "aggregate"
    /\ taskVal = <<Some(60), Some(70), None, Some(80)>>
    /\ aqiResult = Some(<<210, 3>>)

\* C12 as stated: within one aggregate_route_aqi_async call a lookup that fails, by
\* giving no value or by raising, is not surfaced to the caller, and the call
\* returns only once every lookup has completed or failed, with the mean of the
\* successful samples
C12_FailureIsolated ==
    aqiFlow = "aggregate" =>
        /\ aqiPc # "raised"
        /\ aqiPc = "done" =>
              /\ \A j \in 1..Len(taskPc) : taskPc[j] \in {"done", "raised"}
              /\ aqiResult = IF Successes = {} THEN None
                             ELSE Some(<<SumOver(Successes), Cardinality(Successes)>>)

\* what the call does keep: a lookup for which the provider has no value leaves its
\* siblings alone, and a call none of whose lookups raises returns after all of
\* them, with the mean of the successful samples
C12_NoValueIsolated ==
    aqiFlow = "aggregate" /\ (\A k \in 1..Len(aqiCoords) : formats(aqiCoords[k])) =>
        /\ aqiPc # "raised"
        /\ aqiPc = "done" =>
              /\ \A j \in 1..Len(taskPc) : taskPc[j] = "done"
              /\ aqiResult = IF Successes = {} THEN None
                             ELSE Some(<<SumOver(Successes), Cardinality(Successes)>>)

\* C13 as stated: the quality cache serializes check-then-act, so two concurrent
\* lookups of one call whose points round to the same key never both observe a
\* miss and both have the provider queried
C13_NoDoubleMiss ==
    aqiFlow = "aggregate" =>
        \A i \in 1..Len(taskPc) : \A j \in 1..Len(taskPc) :
            (/\ i # j
             /\ formats(aqiSampled[i]) /\ formats(aqiSampled[j])
             /\ PointKey(aqiSampled[i]) = PointKey(aqiSampled[j]))
            => ~(taskPc[i] = "fetching" /\ taskPc[j] = "fetching")

(***************************************************************************)
(* PLACE RESOLVER                                                          *)
(*                                                                         *)
(* A text is a sequence of one-character strings over the digits, ".",     *)
(* "-", ",", " " and the letters of "Agra".  A float is kept exactly, as   *)
(* [neg, ip, fp]: its sign, the digits of its integer part without leading *)
(* zeros and the digits of its fraction without trailing zeros.            *)
(***************************************************************************)

\* bound of the resolver specification: the longest text, in tokens
MaxTokens == 4

GEOCODE_TTL == 24 * 3600

Digits == {"0", "1", "2", "3", "4", "5", "6", "7", "8", "9"}

DigitVal(c) ==
    CASE c = "0" -> 0 [] c = "1" -> 1 [] c = "2" -> 2 [] c = "3" -> 3 [] c = "4" -> 4
      [] c = "5" -> 5 [] c = "6" -> 6 [] c = "7" -> 7 [] c = "8" -> 8 [] c = "9" -> 9

\* the pieces the texts are put together from
TextTokens ==
    { <<"2", "8", ".", "6", "1">>, <<"9", "1">>, <<"1", "8", "1">>,
      <<"-">>, <<",">>, <<" ">>, <<".">>, <<"A", "g", "r", "a">> }

\* the text "28.61, 77.20"
ExampleText == <<"2", "8", ".", "6", "1", ",", " ", "7", "7", ".", "2", "0">>

RECURSIVE TextsOf(_)
\* the texts of at most n tokens
TextsOf(n) ==
    IF n = 0 THEN { << >> }
    ELSE TextsOf(n - 1) \cup { t \o k : t \in TextsOf(n - 1), k \in TextTokens }

PlaceTexts == TextsOf(MaxTokens) \cup {ExampleText}

RECURSIVE StripLeft(_)
StripLeft(s) ==
    IF s # << >> /\ s[1] = " " THEN StripLeft(Tail(s)) ELSE s

RECURSIVE StripRight(_)
StripRight(s) ==
    IF s # << >> /\ s[Len(s)] = " " THEN StripRight(SubSeq(s, 1, Len(s) - 1)) ELSE s

\* str.strip()
Strip(s) == StripRight(StripLeft(s))

\* str.lower()
Lower(s) ==
    [i \in 1..Len(s) |-> CASE s[i] = "A" -> "a" [] s[i] = "B" -> "b" [] OTHER -> s[i]]

\* ch in s
Contains(s, ch) == \E i \in 1..Len(s) : s[i] = ch

RECURSIVE Split(_, _)
\* str.split(ch)
Split(s, ch) ==
    IF ~Contains(s, ch) THEN <<s>>
    ELSE LET i == CHOOSE j \in 1..Len(s) : s[j] = ch /\ \A k \in 1..(j - 1) : s[k] # ch
         IN  <<SubSeq(s, 1, i - 1)>> \o Split(SubSeq(s, i + 1, Len(s)), ch)

AllDigits(s) == \A i \in 1..Len(s) : s[i] \in Digits

\* s without its leading "-"
Unsigned(s) == IF s # << >> /\ s[1] = "-" THEN Tail(s) ELSE s

\* the part of s before its first "." and the part after it
BeforeDot(s) == Split(s, ".")[1]

AfterDot(s) == IF Contains(s, ".") THEN Split(s, ".")[2] ELSE << >>

\* float(s) does not raise: an optional "-", then digits with at most one "." among
\* them and at least one digit ("5.", ".5" and "-5" are floats; ".", "-" and "" are not)
float_parses(s) ==
    LET u == Unsigned(Strip(s))
    IN  /\ Len(Split(u, ".")) <= 2
        /\ AllDigits(BeforeDot(u)) /\ AllDigits(AfterDot(u))
        /\ Len(BeforeDot(u)) + Len(AfterDot(u)) >= 1

RECURSIVE DropLeadingZeros(_)
DropLeadingZeros(d) ==
    IF d # << >> /\ d[1] = "0" THEN DropLeadingZeros(Tail(d)) ELSE d

RECURSIVE DropTrailingZeros(_)
DropTrailingZeros(d) ==
    IF d # << >> /\ d[Len(d)] = "0" THEN DropTrailingZeros(SubSeq(d, 1, Len(d) - 1)) ELSE d

\* float(s) for a text that parses
float_of(s) ==
    LET t  == Strip(s)
        ip == DropLeadingZeros(BeforeDot(Unsigned(t)))
        fp == DropTrailingZeros(AfterDot(Unsigned(t)))
    IN  [neg |-> t[1] = "-" /\ (ip # << >> \/ fp # << >>), ip |-> ip, fp |-> fp]

RECURSIVE NatOf(_)
\* the number written by a digit sequence
NatOf(d) == IF d = << >> THEN 0 ELSE 10 * NatOf(SubSeq(d, 1, Len(d) - 1)) + DigitVal(d[Len(d)])

\* -bound <= x <= bound for a float x and bound < 1000
within(x, bound) ==
    LET ipv == IF Len(x.ip) > 3 THEN 1000 ELSE NatOf(x.ip)
    IN  ipv < bound \/ (ipv = bound /\ x.fp = << >>)

\* the pattern -?\d+(\.\d+)? matches the whole of s
strict_number(s) ==
    LET u == Unsigned(s)
    IN  /\ Len(Split(u, ".")) <= 2
        /\ AllDigits(BeforeDot(u)) /\ BeforeDot(u) # << >>
        /\ AllDigits(AfterDot(u))
        /\ (Contains(u, ".") => AfterDot(u) # << >>)

\* re.match(r"^\s*(-?\d+(\.\d+)?)\s*,\s*(-?\d+(\.\d+)?)\s*$", s) matches
pattern_matches(s) ==
    /\ Len(Split(s, ",")) = 2
    /\ strict_number(Strip(Split(s, ",")[1]))
    /\ strict_number(Strip(Split(s, ",")[2]))

\* geocoding.py _parse_coordinates(place): None or Some of the coordinate; the code
\* returns the list [lon, lat]
parse_coordinates(place) ==
    IF place = << >> THEN None
    ELSE IF ~pattern_matches(Strip(place)) THEN None
    ELSE LET a == float_of(Split(Strip(place), ",")[1])
             b == float_of(Split(Strip(place), ",")[2])
         IN  IF within(a, 90) /\ within(b, 180) THEN Some([lat |-> a, lon |-> b])
             ELSE IF within(a, 180) /\ within(b, 90) THEN Some([lat |-> b, lon |-> a])
             ELSE None

\* the direct input read as "lng,lat"
direct_lng_lat(place) ==
    LET parts == Split(Strip(place), ",")
    IN  IF Contains(Strip(place), ",") /\ Len(parts) = 2
           /\ float_parses(parts[1]) /\ float_parses(parts[2])
        THEN Some([lat |-> float_of(parts[2]), lon |-> float_of(parts[1])])
        ELSE None

\* routes.py geocode_place, lines 129-140: the "lat,lng" direct input; None when
\* the text goes on to the cache and the services
direct_lat_lng(place) ==
    LET parts == Split(Strip(place), ",")
    IN  IF Contains(Strip(place), ",") /\ Len(parts) = 2
           /\ float_parses(parts[1]) /\ float_parses(parts[2])
        THEN Some([lat |-> float_of(parts[1]), lon |-> float_of(parts[2])])
        ELSE None

\* the cache key that keeps the case of the text
geocode_key_case_kept(place) == Strip(place)

\* key = place.lower(), place stripped
geocode_key(place) == Lower(Strip(place))

\* what a geocoding service can answer: a place, an empty result, a failure
\* (a status other than 200, an exception)
Agra == [lat |-> [neg |-> FALSE, ip |-> <<"2", "7">>, fp |-> <<"1", "8">>],
         lon |-> [neg |-> FALSE, ip |-> <<"7", "8">>, fp |-> <<"0", "1">>]]

ServiceReplies == { [kind |-> "found", val |-> Some(Agra)],
                    [kind |-> "empty", val |-> None],
                    [kind |-> "failed", val |-> None] }

NoReply == [kind |-> "none", val |-> None]

\* the states _geocode_cache can be in when the call starts: empty, a fresh entry
\* for "agra", an expired entry for "agra"
GeoCacheStarts ==
    { EmptyDict,
      [k \in {<<"a", "g", "r", "a">>} |-> <<GEOCODE_TTL, Some(Agra)>>],
      [k \in {<<"a", "g", "r", "a">>} |-> <<0 - 1, Some(Agra)>>] }

GeoIdle ==
    /\ geoResolver = "idle"
    /\ placeText = << >>
    /\ geoCache = EmptyDict
    /\ geoCache0 = EmptyDict
    /\ geoPc = "idle"
    /\ geoLog = << >>
    /\ geoReplies = [nominatim |-> NoReply, photon |-> NoReply]
    /\ geoResult = [kind |-> "pending", val |-> None]

GeoInit ==
    /\ geoResolver \in {"routes", "geocoding"}
    /\ placeText \in PlaceTexts
    /\ geoCache \in GeoCacheStarts
    /\ (geoResolver = "geocoding" => geoCache = EmptyDict)
    /\ geoCache0 = geoCache
    /\ geoPc = "start"
    /\ geoLog = << >>
    /\ geoReplies = [nominatim |-> NoReply, photon |-> NoReply]
    /\ geoResult = [kind |-> "pending", val |-> None]

\* routes.py geocode_place, lines 129-156: a direct "lat,lng" text returns at once;
\* otherwise the cache is read, a hit returns and a miss sends the Nominatim request
RoutesGeocodeStart ==
    /\ geoResolver = "routes" /\ geoPc = "start"
    /\ IF direct_lat_lng(placeText) # None
       THEN /\ geoResult' = [kind |-> "return", val |-> direct_lat_lng(placeText)]
            /\ geoPc' = "done"
            /\ UNCHANGED <<geoCache, geoLog>>
       ELSE LET got == cache_get(geoCache, geocode_key(placeText), now)
            IN  /\ geoCache' = got.cache
                /\ geoLog' = Append(geoLog, "cache")
                /\ IF got.val # None
                   THEN /\ geoResult' = [kind |-> "return", val |-> got.val]
                        /\ geoPc' = "done"
                   ELSE /\ geoPc' = "nominatim"
                        /\ UNCHANGED geoResult
    /\ UNCHANGED <<geoResolver, placeText, geoCache0, geoReplies, notGeoVars>>

\* lines 156-166: Nominatim answers; a place is cached and returned, anything else
\* sends the Photon request
RoutesNominatimReply ==
    /\ geoResolver = "routes" /\ geoPc = "nominatim"
    /\ \E reply \in ServiceReplies :
        /\ geoReplies' = [geoReplies EXCEPT !.nominatim = reply]
        /\ geoLog' = Append(geoLog, "nominatim")
        /\ IF reply.kind = "found"
           THEN /\ geoCache' = cache_set(geoCache, geocode_key(placeText), GEOCODE_TTL,
                                         reply.val, now)
                /\ geoResult' = [kind |-> "return", val |-> reply.val]
                /\ geoPc' = "done"
           ELSE /\ geoPc' = "photon"
                /\ UNCHANGED <<geoCache, geoResult>>
    /\ UNCHANGED <<geoResolver, placeText, geoCache0, notGeoVars>>

\* lines 169-189: Photon answers; a place is cached and returned, anything else
\* returns None
RoutesPhotonReply ==
    /\ geoResolver = "routes" /\ geoPc = "photon"
    /\ \E reply \in ServiceReplies :
        /\ geoReplies' = [geoReplies EXCEPT !.photon = reply]
        /\ geoLog' = Append(geoLog, "photon")
        /\ IF reply.kind = "found"
           THEN /\ geoCache' = cache_set(geoCache, geocode_key(placeText), GEOCODE_TTL,
                                         reply.val, now)
                /\ geoResult' = [kind |-> "return", val |-> reply.val]
           ELSE /\ geoResult' = [kind |-> "return", val |-> None]
                /\ UNCHANGED geoCache
    /\ geoPc' = "done"
    /\ UNCHANGED <<geoResolver, placeText, geoCache0, notGeoVars>>

\* geocoding.py geocode_place, lines 49-59: a coordinate text returns at once;
\* otherwise the Nominatim request is sent
GeocodingStart ==
    /\ geoResolver = "geocoding" /\ geoPc = "start"
    /\ IF parse_coordinates(placeText) # None
       THEN /\ geoResult' = [kind |-> "return", val |-> parse_coordinates(placeText)]
            /\ geoPc' = "done"
       ELSE /\ geoPc' = "nominatim"
            /\ UNCHANGED geoResult
    /\ UNCHANGED <<geoResolver, placeText, geoCache, geoCache0, geoLog, geoReplies, notGeoVars>>

\* lines 59-69: Nominatim answers; a failure and an empty result raise
GeocodingNominatimReply ==
    /\ geoResolver = "geocoding" /\ geoPc = "nominatim"
    /\ \E reply \in ServiceReplies :
        /\ geoReplies' = [geoReplies EXCEPT !.nominatim = reply]
        /\ geoLog' = Append(geoLog, "nominatim")
        /\ geoResult' = IF reply.kind = "found"
                        THEN [kind |-> "return", val |-> reply.val]
                        ELSE [kind |-> "raise", val |-> None]
    /\ geoPc' = "done"
    /\ UNCHANGED <<geoResolver, placeText, geoCache, geoCache0, notGeoVars>>

GeoNext ==
    \/ RoutesGeocodeStart
    \/ RoutesNominatimReply
    \/ RoutesPhotonReply
    \/ GeocodingStart
    \/ GeocodingNominatimReply

\* ---- properties of the place resolver

\* decimal numerals with the floats they write and the ranges they lie in
ClaimNumbers ==
    { [text |-> <<"2", "8", ".", "6", "1">>, inLat |-> TRUE, inLon |-> TRUE,
       val |-> [neg |-> FALSE, ip |-> <<"2", "8">>, fp |-> <<"6", "1">>]],
      [text |-> <<"-", "2", "8", ".", "6", "1">>, inLat |-> TRUE, inLon |-> TRUE,
       val |-> [neg |-> TRUE, ip |-> <<"2", "8">>, fp |-> <<"6", "1">>]],
      [text |-> <<"7", "7", ".", "2", "0">>, inLat |-> TRUE, inLon |-> TRUE,
       val |-> [neg |-> FALSE, ip |-> <<"7", "7">>, fp |-> <<"2">>]],
      [text |-> <<"9", "1">>, inLat |-> FALSE, inLon |-> TRUE,
       val |-> [neg |-> FALSE, ip |-> <<"9", "1">>, fp |-> << >>]],
      [text |-> <<"-", "9", "1">>, inLat |-> FALSE, inLon |-> TRUE,
       val |-> [neg |-> TRUE, ip |-> <<"9", "1">>, fp |-> << >>]],
      [text |-> <<"1", "8", "1">>, inLat |-> FALSE, inLon |-> FALSE,
       val |-> [neg |-> FALSE, ip |-> <<"1", "8", "1">>, fp |-> << >>]] }

Pads == { << >>, <<" ">> }

\* the texts of two comma-separated numerals, the first a latitude and the second a
\* longitude, with the coordinate each one writes
CoordinateLiterals ==
    { [text |-> p1 \o a.text \o p2 \o <<",">> \o p3 \o b.text \o p4,
       lat |-> a.val, lon |-> b.val] :
         a \in {n \in ClaimNumbers : n.inLat}, b \in {n \in ClaimNumbers : n.inLon},
         p1 \in Pads, p2 \in Pads, p3 \in Pads, p4 \in Pads }

ServiceQueried(name) == \E i \in 1..Len(geoLog) : geoLog[i] = name

\* C8: a place text of two comma-separated numbers, the first in [-90,90] and the
\* second in [-180,180], resolves to (lat = first, lon = second), and no geocoding
\* service is called for it, whichever geocode_place resolves it
C8_LiteralResolves ==
    \A l \in CoordinateLiterals :
        placeText = l.text /\ geoPc # "idle" =>
            /\ geoPc \in {"start", "done"}
            /\ ~ServiceQueried("nominatim") /\ ~ServiceQueried("photon")
            /\ geoPc = "done" =>
                   geoResult = [kind |-> "return",
                                val |-> Some([lat |-> l.lat, lon |-> l.lon])]

\* "28.61, 77.20" has resolved to lat 28.61, lon 77.2 and no service was called
C8_Witness ==
    /\ geoResolver = "routes" /\ geoPc = "done" /\ placeText = ExampleText
    /\ geoLog = << >>
    /\ geoResult.kind = "return"
    /\ Val(geoResult.val).lat = [neg |-> FALSE, ip |-> <<"2", "8">>, fp |-> <<"6", "1">>]
    /\ Val(geoResult.val).lon = [neg |-> FALSE, ip |-> <<"7", "7">>, fp |-> <<"2">>]

\* the texts that name Agra, whose trimmed lowercased text is "agra"
AgraTexts == { p1 \o <<"A", "g", "r", "a">> \o p2 : p1 \in Pads, p2 \in Pads }

TrimmedLowercased(text) ==
    IF text \in AgraTexts THEN <<"a", "g", "r", "a">> ELSE Lower(Strip(text))

\* the cache holds an entry for the key that has not expired
Fresh(c, key) == key \in DOMAIN c /\ c[key][1] >= now

Failed(reply) == reply.kind \in {"empty", "failed"}

TwoNumberText == pattern_matches(Strip(placeText))

FirstNumber == float_of(Split(Strip(placeText), ",")[1])

SecondNumber == float_of(Split(Strip(placeText), ",")[2])

\* what the resolver owes a two-number text: the numbers as (lat, lon) when that
\* ordering is in range, swapped when only (lon, lat) is in range, and otherwise
\* no coordinate from the text: the services are asked
LiteralInRange ==
    (geoPc = "done" /\ TwoNumberText) =>
        IF within(FirstNumber, 90) /\ within(SecondNumber, 180)
        THEN geoResult = [kind |-> "return",
                          val |-> Some([lat |-> FirstNumber, lon |-> SecondNumber])]
        ELSE IF within(FirstNumber, 180) /\ within(SecondNumber, 90)
        THEN geoResult = [kind |-> "return",
                          val |-> Some([lat |-> SecondNumber, lon |-> FirstNumber])]
        ELSE ServiceQueried("nominatim")

\* C18 as stated: every coordinate a geocode_place returns from a two-number text
\* has lat in [-90,90] and lon in [-180,180]; the numbers are swapped when only the
\* (lon, lat) ordering is in range, and a text with neither ordering in range goes
\* on to the services
C18_LiteralInRange ==
    /\ LiteralInRange
    /\ (geoPc = "done" /\ TwoNumberText /\ geoLog = << >> /\ geoResult.val # None) =>
            within(Val(geoResult.val).lat, 90) /\ within(Val(geoResult.val).lon, 180)

\* what the code does keep: geocoding.py's geocode_place does all of it
C18_GeocodingInRange == geoResolver = "geocoding" => C18_LiteralInRange

(***************************************************************************)
(* ROUTE RETRIEVER                                                         *)
(***************************************************************************)

\* bound of the retriever specification: the most routes the engine answers with
MaxAlts == 4

MAX_ALTERNATIVES_TO_RETURN == 3

OSRM_TTL == 15 * 60

\* the keys of OSRM_ROUTE_URLS
OSRM_ROUTE_URLS == { <<"c", "a", "r">>, <<"b", "i", "k", "e">>, <<"w", "a", "l", "k">> }

\* the mode arguments: None, "", the three modes, " Bike" and "boat"
ModeArguments ==
    { None, Some(<< >>), Some(<<"c", "a", "r">>), Some(<<"b", "i", "k", "e">>),
      Some(<<"w", "a", "l", "k">>), Some(<<" ", "B", "i", "k", "e">>),
      Some(<<"b", "o", "a", "t">>) }

\* mode = (mode or "car").lower().strip(); if mode not in OSRM_ROUTE_URLS: mode = "car"
normal_mode(mode) ==
    LET given == IF mode = None \/ mode = Some(<< >>) THEN <<"c", "a", "r">> ELSE Val(mode)
        m     == Strip(Lower(given))
    IN  IF m \in OSRM_ROUTE_URLS THEN m ELSE <<"c", "a", "r">>

\* cache_key: the mode and the two endpoints (the other parts of the key are the
\* same in every call of the flows)
osrm_cache_key(mode) == <<normal_mode(mode), "A;B">>

RECURSIVE RouteListsOf(_)
\* the route lists of length n: route i of a list has id i and a duration
RouteListsOf(n) ==
    IF n = 0 THEN { << >> }
    ELSE { Append(l, [id |-> n, duration |-> d]) : l \in RouteListsOf(n - 1), d \in {5, 10} }

RouteLists == UNION { RouteListsOf(n) : n \in 0..MaxAlts }

\* what the routing engine can answer: no answer (the request raises), an HTTP
\* error status, a body that is not JSON, or a JSON body with a code and, possibly,
\* a list of routes
EngineReplies ==
    { [kind |-> k, code |-> "none", routes |-> None] :
          k \in {"exception", "http_error", "not_json"} }
    \cup { [kind |-> "json", code |-> c, routes |-> r] :
               c \in {"Ok", "NoRoute"}, r \in {None} \cup { Some(l) : l \in RouteLists } }

NoEngineReply == [kind |-> "none", code |-> "none", routes |-> None]

\* the states _osrm_cache can be in when the call starts: empty; for the car key a
\* fresh list, a fresh empty list, an expired list; a fresh list for the bike key
OsrmCacheStarts ==
    LET car     == <<<<"c", "a", "r">>, "A;B">>
        bike    == <<<<"b", "i", "k", "e">>, "A;B">>
        oneList == <<[id |-> 1, duration |-> 5]>>
    IN  { EmptyDict,
          [k \in {car} |-> <<OSRM_TTL, Some(oneList)>>],
          [k \in {car} |-> <<OSRM_TTL, Some(<< >>)>>],
          [k \in {car} |-> <<0 - 1, Some(oneList)>>],
          [k \in {bike} |-> <<OSRM_TTL, Some(oneList)>>] }

Pending == [kind |-> "pending", val |-> << >>]

NoResponse == [kind |-> "pending", error |-> None, routes |-> << >>]

OsrmIdle ==
    /\ osrmImpl = "idle"
    /\ navStartGeo = None /\ navEndGeo = None
    /\ osrmMode = None
    /\ osrmCache = EmptyDict
    /\ osrmPc = "idle"
    /\ engineReply = NoEngineReply
    /\ osrmOutcome = Pending
    /\ navResponse = NoResponse

OsrmInit ==
    /\ osrmImpl \in {"routes", "routing_service"}
    /\ navStartGeo \in {None, Some(Agra)} /\ navEndGeo \in {None, Some(Agra)}
    /\ osrmMode \in ModeArguments
    /\ osrmCache \in OsrmCacheStarts
    /\ (osrmImpl = "routing_service" =>
            /\ navStartGeo # None /\ navEndGeo # None
            /\ osrmMode = None /\ osrmCache = EmptyDict)
    /\ osrmPc = IF osrmImpl = "routes" THEN "navigate" ELSE "osrm_call"
    /\ engineReply = NoEngineReply
    /\ osrmOutcome = Pending
    /\ navResponse = NoResponse

\* routes.py navigate_fast, lines 428-437: the two places; a place not found is
\* answered at once
NavigateFastStart ==
    /\ osrmImpl = "routes" /\ osrmPc = "navigate"
    /\ IF navStartGeo = None
       THEN /\ navResponse' = [kind |-> "response",
                               error |-> Some("Start location not found"), routes |-> << >>]
            /\ osrmPc' = "done"
       ELSE IF navEndGeo = None
       THEN /\ navResponse' = [kind |-> "response",
                               error |-> Some("End location not found"), routes |-> << >>]
            /\ osrmPc' = "done"
       ELSE /\ osrmPc' = "osrm_call"
            /\ UNCHANGED navResponse
    /\ UNCHANGED <<osrmImpl, navStartGeo, navEndGeo, osrmMode, osrmCache, engineReply,
                   osrmOutcome, notOsrmVars>>

\* a cached value is used only if it is truthy: not None and not the empty list
truthy(cached) == cached # None /\ Val(cached) # << >>

\* osrm_get_routes_cached, lines 338-361: the cache is read; a truthy value is
\* returned, anything else sends the request to the engine
OsrmCachedCall ==
    /\ osrmImpl = "routes" /\ osrmPc = "osrm_call"
    /\ LET got == cache_get(osrmCache, osrm_cache_key(osrmMode), now)
       IN  /\ osrmCache' = got.cache
           /\ IF truthy(got.val)
              THEN /\ osrmOutcome' = [kind |-> "return", val |-> Val(got.val)]
                   /\ osrmPc' = "osrm_done"
              ELSE /\ osrmPc' = "request"
                   /\ UNCHANGED osrmOutcome
    /\ UNCHANGED <<osrmImpl, navStartGeo, navEndGeo, osrmMode, engineReply, navResponse,
                   notOsrmVars>>

\* the request returns and raise_for_status() and json() pass
answered_json(reply) == reply.kind = "json"

\* data.get("routes", [])
routes_or_empty(reply) == IF reply.routes = None THEN << >> ELSE Val(reply.routes)

\* osrm_get_routes_cached, lines 361-368: the engine answers
OsrmCachedReply ==
    /\ osrmImpl = "routes" /\ osrmPc = "request"
    /\ \E reply \in EngineReplies :
        /\ engineReply' = reply
        /\ IF ~answered_json(reply)
           THEN /\ osrmOutcome' = [kind |-> "raise", val |-> << >>]
                /\ UNCHANGED osrmCache
           ELSE IF reply.code # "Ok"
           THEN /\ osrmOutcome' = [kind |-> "return", val |-> << >>]
                /\ UNCHANGED osrmCache
           ELSE /\ osrmCache' = cache_set(osrmCache, osrm_cache_key(osrmMode), OSRM_TTL,
                                          Some(routes_or_empty(reply)), now)
                /\ osrmOutcome' = [kind |-> "return", val |-> routes_or_empty(reply)]
    /\ osrmPc' = "osrm_done"
    /\ UNCHANGED <<osrmImpl, navStartGeo, navEndGeo, osrmMode, navResponse, notOsrmVars>>

\* routes_out.sort(key=lambda x: x["duration_s"])
sort_by_duration(routes) ==
    LET sorted == SortStable([i \in 1..Len(routes) |-> <<routes[i].duration, routes[i]>>])
    IN  [i \in 1..Len(routes) |-> sorted[i][2]]

\* navigate_fast, lines 439-472: an exception of the call leaves the handler; no
\* routes give an empty list; routes are sorted by duration and cut to three
NavigateFastReturn ==
    /\ osrmImpl = "routes" /\ osrmPc = "osrm_done"
    /\ navResponse' =
           IF osrmOutcome.kind = "raise"
           THEN [kind |-> "error", error |-> None, routes |-> << >>]
           ELSE IF osrmOutcome.val = << >>
           THEN [kind |-> "response", error |-> None, routes |-> << >>]
           ELSE [kind |-> "response", error |-> None,
                 routes |-> SliceTo(sort_by_duration(osrmOutcome.val),
                                    MAX_ALTERNATIVES_TO_RETURN)]
    /\ osrmPc' = "done"
    /\ UNCHANGED <<osrmImpl, navStartGeo, navEndGeo, osrmMode, osrmCache, engineReply,
                   osrmOutcome, notOsrmVars>>

\* routing_service.py get_osrm_routes, lines 100-114: the request is sent
GetOsrmRoutesCall ==
    /\ osrmImpl = "routing_service" /\ osrmPc = "osrm_call"
    /\ osrmPc' = "request"
    /\ UNCHANGED <<osrmImpl, navStartGeo, navEndGeo, osrmMode, osrmCache, engineReply,
                   osrmOutcome, navResponse, notOsrmVars>>

\* get_osrm_routes, lines 114-166: the engine answers; no routes raise ValueError
GetOsrmRoutesReply ==
    /\ osrmImpl = "routing_service" /\ osrmPc = "request"
    /\ \E reply \in EngineReplies :
        /\ engineReply' = reply
        /\ osrmOutcome' =
               IF ~answered_json(reply) \/ routes_or_empty(reply) = << >>
               THEN [kind |-> "raise", val |-> << >>]
               ELSE [kind |-> "return", val |-> Val(reply.routes)]
    /\ osrmPc' = "done"
    /\ UNCHANGED <<osrmImpl, navStartGeo, navEndGeo, osrmMode, osrmCache, navResponse,
                   notOsrmVars>>

OsrmNext ==
    \/ NavigateFastStart
    \/ OsrmCachedCall
    \/ OsrmCachedReply
    \/ NavigateFastReturn
    \/ GetOsrmRoutesCall
    \/ GetOsrmRoutesReply

\* ---- properties of the route retriever

\* the engine answered with a non-success status or with no routes
NonSuccess(reply) ==
    \/ reply.kind = "http_error"
    \/ reply.kind = "json" /\ reply.code # "Ok"
    \/ reply.kind = "json" /\ (reply.routes = None \/ reply.routes = Some(<< >>))

\* C10: the retriever never ends in an error: on an HTTP error status, a response
\* code other than Ok or an answer without routes it returns the empty list, and
\* navigate_fast then answers with an empty route list
C10_NeverAnError ==
    /\ osrmOutcome.kind # "raise"
    /\ navResponse.kind # "error"
    /\ NonSuccess(engineReply) =>
           /\ osrmOutcome.kind = "return" /\ osrmOutcome.val = << >>
           /\ osrmPc = "done" /\ osrmImpl = "routes" =>
                  navResponse.kind = "response" /\ navResponse.routes = << >>

\* what the retriever of routes.py does keep: a response code other than Ok and an
\* Ok answer without routes return the empty list, and navigate_fast answers with
\* an empty route list
C10_JsonAnswers ==
    osrmImpl = "routes" /\ engineReply.kind = "json" /\ NonSuccess(engineReply) =>
        /\ osrmOutcome = [kind |-> "return", val |-> << >>]
        /\ osrmPc = "done" =>
               navResponse = [kind |-> "response", error |-> None, routes |-> << >>]

\* the entries of cache c that a step wrote or replaced
Written(c, cNext) == { k \in DOMAIN cNext : k \notin DOMAIN c \/ cNext[k] # c[k] }

\* C14 as stated: no step writes a failure to a cache: an absent quality to the
\* quality cache, an empty alternative list to the route cache, or a failed
\* resolution to the geocode cache
C14_NoFailureWritten ==
    [][ /\ \A k \in Written(aqiCache, aqiCache') : aqiCache'[k][2] # None
        /\ \A k \in Written(osrmCache, osrmCache') :
               osrmCache'[k][2] # None /\ osrmCache'[k][2] # Some(<< >>)
        /\ \A k \in Written(geoCache, geoCache') : geoCache'[k][2] # None ]_vars

\* what the code does keep: a place resolution that fails and a routing answer with
\* a status other than Ok write nothing
C14_FailuresNotWritten ==
    [][ /\ \A k \in Written(geoCache, geoCache') : geoCache'[k][2] # None
        /\ (osrmImpl = "routes" /\ osrmPc = "request" /\ osrmPc' = "osrm_done"
             /\ (~answered_json(engineReply') \/ engineReply'.code # "Ok"))
            => osrmCache' = osrmCache ]_vars

(***************************************************************************)
(* ENRICHMENT FLOWS                                                        *)
(*                                                                         *)
(* aqi_for_routes and navigate gather the route averages, then the route   *)
(* segments.  The coroutines of one gather start in list order and run to  *)
(* their first await, so every cache read of a gather precedes every       *)
(* completion of one of its provider threads; the threads complete in any  *)
(* order.  An average is kept exactly, as <<sum, count>>, and rounded to 2 *)
(* decimals as an integer number of hundredths.                            *)
(***************************************************************************)

\* bounds of the enrichment specification: the most routes, the longest route
MaxFlowRoutes == 2

MaxFlowPts == 3

SEGMENT_COUNT == 8

SEGMENT_SAMPLE_POINTS == 2

\* the bands with their upper edges left out
aqi_to_color_open_edges(aqi) ==
    IF aqi = None THEN "gray"
    ELSE LET n == Val(aqi)[1]
             d == Val(aqi)[2]
         IN  IF n < 50 * d THEN "green"
             ELSE IF n < 100 * d THEN "yellow"
             ELSE IF n < 150 * d THEN "orange"
             ELSE IF n < 200 * d THEN "blue"
             ELSE "red"

\* routes.py aqi_to_color(aqi), aqi None or Some(<<n, d>>) for the number n/d
aqi_to_color(aqi) ==
    IF aqi = None THEN "gray"
    ELSE LET n == Val(aqi)[1]
             d == Val(aqi)[2]
         IN  IF n <= 50 * d THEN "green"
             ELSE IF n <= 100 * d THEN "yellow"
             ELSE IF n <= 150 * d THEN "orange"
             ELSE IF n <= 200 * d THEN "blue"
             ELSE "red"

\* round(x, 2) of x = n/d, in hundredths (no x of the model lies halfway)
round2(x) == (200 * x[1] + x[2]) \div (2 * x[2])

\* None if avg_aqi is None else round(avg_aqi, 2)
rounded_or_none(avg) == IF avg = None THEN None ELSE Some(round2(Val(avg)))

\* the i-th point of the flows; the points have distinct cache keys
FlowPoint(i) == RoutePoint(i + 2)

FlowPath(n) == [i \in 1..n |-> FlowPoint(i)]

Reversed(s) == [i \in 1..Len(s) |-> s[Len(s) + 1 - i]]

FlowGeometries == UNION { {FlowPath(n), Reversed(FlowPath(n))} : n \in 0..MaxFlowPts }

\* the most points the routes of one request have together
MaxFlowTotal == 6

RECURSIVE TotalPoints(_)
TotalPoints(g) == IF g = << >> THEN 0 ELSE Len(g[1]) + TotalPoints(Tail(g))

\* the route lists: route i has id i; the durations rise or fall along the list
FlowRouteLists ==
    UNION { { [i \in 1..n |-> [id |-> i, coords |-> g[i],
                               duration_s |-> IF up THEN 5 * i ELSE 5 * (n + 1 - i)]] :
                  g \in {h \in [1..n -> FlowGeometries] : TotalPoints(h) <= MaxFlowTotal},
                  up \in BOOLEAN } :
            n \in 0..MaxFlowRoutes }

\* the provider during one request: a reading for every point, or a reading for
\* every point but the third, for which it has none
FlowReading(i) == CASE i = 1 -> 60 [] i = 2 -> 90 [] i = 3 -> 150 [] OTHER -> 100

FlowEnvs ==
    { [p \in {FlowPoint(i) : i \in 1..MaxFlowPts} |->
          IF p = FlowPoint(3) /\ fails THEN None
          ELSE Some(FlowReading(CHOOSE i \in 1..MaxFlowPts : FlowPoint(i) = p))] :
      fails \in BOOLEAN }

\* the states _aqi_cache can be in when the request starts: empty, a fresh reading
\* for the third point, an expired reading for it
FlowCacheStarts ==
    { EmptyDict,
      [k \in {PointKey(FlowPoint(3))} |-> <<AQI_TTL, Some(120)>>],
      [k \in {PointKey(FlowPoint(3))} |-> <<0 - 1, Some(120)>>] }

RECURSIVE Flatten(_)
\* the concatenation of a list of lists
Flatten(ss) == IF ss = << >> THEN << >> ELSE ss[1] \o Flatten(Tail(ss))

\* the lookups aggregate_route_aqi_async issues for route i: one per sampled point
avg_lookups(routes, i) ==
    LET sampled == sample_points_along_route(routes[i].coords, MAX_SAMPLE_POINTS)
    IN  [k \in 1..Len(sampled) |-> [route |-> i, seg |-> 0, point |-> sampled[k]]]

\* the lookups segment_aqi issues for segment j of route i
segment_lookups(routes, i, j) ==
    LET seg     == split_route_into_segments(routes[i].coords, SEGMENT_COUNT)[j]
        sampled == sample_points_along_route(seg, SEGMENT_SAMPLE_POINTS)
    IN  [k \in 1..Len(sampled) |-> [route |-> i, seg |-> j, point |-> sampled[k]]]

\* the lookups compute_aqi_segments issues for route i, segment after segment
seg_lookups(routes, i) ==
    Flatten([j \in 1..Len(split_route_into_segments(routes[i].coords, SEGMENT_COUNT)) |->
                segment_lookups(routes, i, j)])

RECURSIVE start_lookups(_, _, _)
\* get_aqi_for_point up to its await, for every lookup of a gather in list order:
\* the cache is read; a value that is not None returns, anything else hands the
\* point to the provider thread; started holds the lookups already begun
start_lookups(c, wanted, started) ==
    IF wanted = << >> THEN [cache |-> c, tasks |-> started]
    ELSE LET got == cache_get(c, PointKey(wanted[1].point), now)
         IN  start_lookups(got.cache, Tail(wanted),
                 Append(started,
                        [route |-> wanted[1].route, seg |-> wanted[1].seg,
                         point |-> wanted[1].point,
                         pc  |-> IF got.val # None THEN "done" ELSE "fetching",
                         val |-> got.val]))

\* the values of the lookups issued for the next route of the list
values_of_next_route(tasks, i, j) ==
    LET own == [t \in 1..Len(tasks) |-> tasks[t].route = i + 1 /\ tasks[t].seg = j]
        RECURSIVE pick(_)
        pick(t) == IF t > Len(tasks) THEN << >>
                   ELSE IF own[t] THEN <<tasks[t].val>> \o pick(t + 1) ELSE pick(t + 1)
    IN  pick(1)

RECURSIVE values_of(_, _, _)
\* the values gather returns to the caller that issued the lookups of route i,
\* segment j, in the order of its task list
values_of(tasks, i, j) ==
    IF tasks = << >> THEN << >>
    ELSE IF tasks[1].route = i /\ tasks[1].seg = j
         THEN <<tasks[1].val>> \o values_of(Tail(tasks), i, j)
         ELSE values_of(Tail(tasks), i, j)

\* avg_values[i]: what aggregate_route_aqi_async(coords of route i) returned
avg_value(tasks, i) == mean_of_present(values_of(tasks, i, 0))

\* seg_values[i]: what compute_aqi_segments(coords of route i) returned
seg_value(routes, tasks, i) ==
    LET segments == split_route_into_segments(routes[i].coords, SEGMENT_COUNT)
    IN  [j \in 1..Len(segments) |->
            [geometry  |-> segments[j],
             avg_aqi   |-> rounded_or_none(mean_of_present(values_of(tasks, i, j))),
             aqi_color |-> aqi_to_color(mean_of_present(values_of(tasks, i, j)))]]

\* the enriched list, routes.py lines 505-515 and 576-586
enriched(routes, avgs, tasks) ==
    [i \in 1..Len(routes) |->
        [id |-> routes[i].id, coords |-> routes[i].coords,
         duration_s   |-> Some(routes[i].duration_s),
         avg_aqi      |-> rounded_or_none(avgs[i]),
         aqi_color    |-> aqi_to_color(avgs[i]),
         aqi_segments |-> seg_value(routes, tasks, i)]]

EnrichIdle ==
    /\ enrFlow = "idle"
    /\ enrRoutes = << >>
    /\ enrEnv = EmptyDict
    /\ enrCache = EmptyDict
    /\ enrCache0 = EmptyDict
    /\ enrOvertaken = FALSE
    /\ enrPhase = "idle"
    /\ enrTasks = << >>
    /\ enrAvg = << >>
    /\ enrOut = << >>

EnrichInit ==
    /\ enrFlow \in {"aqi_for_routes", "navigate"}
    /\ enrRoutes \in FlowRouteLists
    /\ enrEnv \in FlowEnvs
    /\ enrCache \in FlowCacheStarts
    /\ enrCache0 = enrCache
    /\ enrOvertaken = FALSE
    /\ enrPhase = "start"
    /\ enrTasks = << >>
    /\ enrAvg = << >>
    /\ enrOut = << >>

\* aqi_for_routes lines 491-502, navigate lines 550-573: no routes are answered at
\* once; otherwise the averages are gathered and their lookups start
EnrichStart ==
    /\ enrPhase = "start"
    /\ IF enrRoutes = << >>
       THEN /\ enrPhase' = "done"
            /\ UNCHANGED <<enrCache, enrTasks>>
       ELSE LET started == start_lookups(enrCache,
                               Flatten([i \in 1..Len(enrRoutes) |-> avg_lookups(enrRoutes, i)]),
                               << >>)
            IN  /\ enrCache' = started.cache
                /\ enrTasks' = started.tasks
                /\ enrPhase' = "avg"
    /\ UNCHANGED <<enrFlow, enrRoutes, enrEnv, enrCache0, enrOvertaken, enrAvg, enrOut,
                   notEnrichVars>>

\* get_aqi_for_point after its await, lines 258-260: the provider thread of lookup t
\* has answered; the answer is stored and returned
EnrichLookupDone(t) ==
    /\ enrPhase \in {"avg", "seg"}
    /\ enrTasks[t].pc = "fetching"
    /\ LET aqi == enrEnv[enrTasks[t].point]
       IN  /\ enrCache' = cache_set(enrCache, PointKey(enrTasks[t].point), AQI_TTL, aqi, now)
           /\ enrTasks' = [enrTasks EXCEPT ![t] = [@ EXCEPT !.pc = "done", !.val = aqi]]
    /\ enrOvertaken' = (enrOvertaken \/ \E u \in 1..(t - 1) : enrTasks[u].pc = "fetching")
    /\ UNCHANGED <<enrFlow, enrRoutes, enrEnv, enrCache0, enrPhase, enrAvg, enrOut,
                   notEnrichVars>>

AllLookupsDone == \A t \in 1..Len(enrTasks) : enrTasks[t].pc = "done"

\* lines 502-503 and 573-574: the first gather has returned avg_values; the
\* segments are gathered and their lookups start
EnrichSegments ==
    /\ enrPhase = "avg" /\ AllLookupsDone
    /\ enrAvg' = [i \in 1..Len(enrRoutes) |-> avg_value(enrTasks, i)]
    /\ LET started == start_lookups(enrCache,
                          Flatten([i \in 1..Len(enrRoutes) |-> seg_lookups(enrRoutes, i)]),
                          << >>)
       IN  /\ enrCache' = started.cache
           /\ enrTasks' = started.tasks
    /\ enrPhase' = "seg"
    /\ UNCHANGED <<enrFlow, enrRoutes, enrEnv, enrCache0, enrOvertaken, enrOut, notEnrichVars>>

\* lines 505-522 and 576-595: the second gather has returned seg_values; the routes
\* are enriched by index and ranked
EnrichReturn ==
    /\ enrPhase = "seg" /\ AllLookupsDone
    /\ enrOut' = rank_routes_best(enriched(enrRoutes, enrAvg, enrTasks),
                                  MAX_ALTERNATIVES_TO_RETURN)
    /\ enrPhase' = "done"
    /\ UNCHANGED <<enrFlow, enrRoutes, enrEnv, enrCache, enrCache0, enrOvertaken, enrTasks,
                   enrAvg, notEnrichVars>>

EnrichNext ==
    \/ EnrichStart
    \/ \E t \in 1..(MaxFlowRoutes * SEGMENT_COUNT * SEGMENT_SAMPLE_POINTS) :
           t <= Len(enrTasks) /\ EnrichLookupDone(t)
    \/ EnrichSegments
    \/ EnrichReturn

\* ---- properties of the enrichment flows

\* the reading a lookup of point p gives in this request: the unexpired reading the
\* cache held when the request began, else the answer of the provider
PointValue(p) ==
    IF Fresh(enrCache0, PointKey(p)) /\ enrCache0[PointKey(p)][2] # None
    THEN enrCache0[PointKey(p)][2]
    ELSE enrEnv[p]

RECURSIVE SumOfPoints(_, _)
SumOfPoints(pts, S) ==
    IF S = {} THEN 0
    ELSE LET k == CHOOSE x \in S : TRUE
         IN  Val(PointValue(pts[k])) + SumOfPoints(pts, S \ {k})

\* the mean of the readings of the points that have one, as <<sum, count>>
MeanOfPoints(pts) ==
    LET ok == { k \in 1..Len(pts) : PointValue(pts[k]) # None }
    IN  IF ok = {} THEN None ELSE Some(<<SumOfPoints(pts, ok), Cardinality(ok)>>)

\* the slice of coords a segment is, as the set of its possible first indices
SliceStarts(coords, seg) ==
    { a \in 1..Len(coords) :
        a + Len(seg) - 1 <= Len(coords) /\ seg = SubSeq(coords, a, a + Len(seg) - 1) }

\* what route i carries when it is enriched from its own geometry
OwnAvg(i) == rounded_or_none(MeanOfPoints(enrRoutes[i].coords))

OwnEnriched ==
    [i \in 1..Len(enrRoutes) |->
        [id |-> i, duration_s |-> Some(enrRoutes[i].duration_s), avg_aqi |-> OwnAvg(i)]]

\* C11: whatever the order in which the lookups complete, every route returned by
\* aqi_for_routes and navigate carries the average of its own points and segments
\* that are slices of its own polyline, in polyline order, each with the average of
\* its own sampled points; the routes returned and their order are those of the
\* ranking of the routes so enriched, the same for every completion order
C11_RecombinedByIndex ==
    enrPhase = "done" =>
        /\ Ids(enrOut) = Ids(rank_routes_best(OwnEnriched, 3))
        /\ \A k \in 1..Len(enrOut) :
              LET r == enrOut[k]
                  i == r.id
              IN  /\ r.coords = enrRoutes[i].coords
                  /\ r.avg_aqi = OwnAvg(i)
                  /\ Len(r.coords) >= 2 => Len(r.aqi_segments) >= 1
                  /\ \A j \in 1..Len(r.aqi_segments) :
                        LET seg == r.aqi_segments[j]
                        IN  /\ SliceStarts(r.coords, seg.geometry) # {}
                            /\ seg.avg_aqi = rounded_or_none(MeanOfPoints(
                                   sample_points_along_route(seg.geometry, 2)))
                            /\ j > 1 =>
                                  \E a \in SliceStarts(r.coords, r.aqi_segments[j - 1].geometry),
                                     b \in SliceStarts(r.coords, seg.geometry) : a <= b

\* two routes of different geometry were enriched while a lookup overtook an earlier
\* one and the provider had no reading for the third point; the one-point route,
\* of the lower average, is returned first
C11_Witness ==
    /\ enrPhase = "done" /\ enrOvertaken
    /\ Len(enrRoutes) = 2
    /\ enrRoutes[1].coords = FlowPath(3) /\ enrRoutes[2].coords = FlowPath(1)
    /\ enrEnv[FlowPoint(3)] = None /\ enrCache0 = EmptyDict
    /\ Ids(enrOut) = <<2, 1>>
    /\ enrOut[1].avg_aqi = Some(6000) /\ enrOut[2].avg_aqi = Some(7500)
    /\ Len(enrOut[2].aqi_segments) = 8
    /\ enrOut[2].aqi_segments[8].avg_aqi = Some(9000)

(***************************************************************************)
(* COLOUR BANDS                                                            *)
(*                                                                         *)
(* A quality value is None or a number in halves, Some(<<n, 2>>).  routes  *)
(* returns the band name as a string; aqi_utils returns a pair of a hex    *)
(* colour and a display name.                                              *)
(***************************************************************************)

\* the largest whole quality value that is mapped
MaxAqi == 210

\* the arguments: no value, and every half from -1 to MaxAqi
ColorArguments == {None} \cup { Some(<<n, 2>>) : n \in (0 - 2)..(2 * MaxAqi) }

\* aqi_utils.py aqi_to_color(aqi)
utils_aqi_to_color(aqi) ==
    IF aqi = None THEN <<"#9ca3af", "Gray">>
    ELSE LET n == Val(aqi)[1]
             d == Val(aqi)[2]
         IN  IF n <= 50 * d THEN <<"#22c55e", "Green">>
             ELSE IF n <= 100 * d THEN <<"#eab308", "Yellow">>
             ELSE IF n <= 150 * d THEN <<"#f97316", "Orange">>
             ELSE IF n <= 200 * d THEN <<"#3b82f6", "Blue">>
             ELSE <<"#ef4444", "Red">>

ColorIdle ==
    /\ colorAqi = None
    /\ colorRoutes = Pending
    /\ colorUtils = Pending

ColorInit ==
    /\ colorAqi \in ColorArguments
    /\ colorRoutes = Pending
    /\ colorUtils = Pending

\* routes.aqi_to_color(aqi), as compute_aqi_segments and aqi_for_routes call it
RoutesColor ==
    /\ colorRoutes.kind = "pending"
    /\ colorRoutes' = [kind |-> "return", val |-> aqi_to_color(colorAqi)]
    /\ UNCHANGED <<colorAqi, colorUtils, notColorVars>>

\* aqi_utils.aqi_to_color(aqi), as attach_aqi_to_routes calls it
UtilsColor ==
    /\ colorUtils.kind = "pending"
    /\ colorUtils' = [kind |-> "return", val |-> utils_aqi_to_color(colorAqi)]
    /\ UNCHANGED <<colorAqi, colorRoutes, notColorVars>>

ColorNext ==
    \/ RoutesColor
    \/ UtilsColor

\* the band of the table: green up to 50, yellow above 50 up to 100, orange above
\* 100 up to 150, blue above 150 up to 200, red above 200, gray for no value
Band(q) ==
    IF q = None THEN "gray"
    ELSE LET n == Val(q)[1]
             d == Val(q)[2]
         IN  CASE n <= 50 * d -> "green"
               [] 50 * d < n /\ n <= 100 * d -> "yellow"
               [] 100 * d < n /\ n <= 150 * d -> "orange"
               [] 150 * d < n /\ n <= 200 * d -> "blue"
               [] n > 200 * d -> "red"

\* str.lower() of the display names
LowerName(name) ==
    CASE name = "Gray" -> "gray"
      [] name = "Green" -> "green"
      [] name = "Yellow" -> "yellow"
      [] name = "Orange" -> "orange"
      [] name = "Blue" -> "blue"
      [] name = "Red" -> "red"
      [] OTHER -> name

\* both mappings have been applied to the argument
BothMapped == colorRoutes.kind = "return" /\ colorUtils.kind = "return"

\* C15 as stated: routes.aqi_to_color returns the band of the table, and
\* aqi_utils.aqi_to_color returns the same band name for every input
C15_SameBandName ==
    BothMapped =>
        /\ colorRoutes.val = Band(colorAqi)
        /\ colorUtils.val[2] = colorRoutes.val

\* C15, amended: routes.aqi_to_color returns the band of the table, and the name
\* in the pair aqi_utils.aqi_to_color returns is that band name capitalised: the
\* two agree on the band and differ in letter case
C15_SameBand ==
    BothMapped =>
        /\ colorRoutes.val = Band(colorAqi)
        /\ LowerName(colorUtils.val[2]) = colorRoutes.val
        /\ colorUtils.val[2] # colorRoutes.val

\* both mappings applied to a value on a band edge
C15_Witness ==
    /\ BothMapped
    /\ colorAqi \in {Some(<<100, 2>>), Some(<<200, 2>>), Some(<<300, 2>>), Some(<<400, 2>>)}

(***************************************************************************)
(* REQUEST HEAD                                                            *)
(*                                                                         *)
(* navigate_fast and navigate resolve the start place, then the end place, *)
(* then ask for the routes.  geocode_place is taken step by step, one step *)
(* per service reply; the engine call and the quality lookups of navigate  *)
(* are each one step that counts the queries made.                         *)
(***************************************************************************)

\* the most points one navigate request hands to the provider in this model
MaxNavLookups == 2

\* the place texts of a request: two spellings of one place, another place, and
\* a "lat,lng" text
NavPlaces ==
    { <<"A", "g", "r", "a">>, <<"a", "g", "r", "a", " ">>, <<"B", "a">>, ExampleText }

Unresolved == [kind |-> "pending", val |-> None]

\* what geocode_place returned: None, or the coordinate
Resolved(geo) == [kind |-> IF geo = None THEN "failed" ELSE "found", val |-> geo]

\* a handler that goes on whatever geocode_place returned
not_found_ignored(geo) == FALSE

\* if not start_geo / if not end_geo: a coordinate pair is never empty
not_found(geo) == geo = None

NavIdle ==
    /\ navHandler = "idle"
    /\ navPlace = << >>
    /\ navGeoCache = EmptyDict
    /\ navWhich = 1
    /\ navPc = "idle"
    /\ navGeo = <<Unresolved, Unresolved>>
    /\ navQueries = << >>
    /\ navEngine = 0
    /\ navProvider = 0
    /\ navReply = NoResponse

NavInit ==
    /\ navHandler \in {"navigate_fast", "navigate"}
    /\ navPlace \in NavPlaces \X NavPlaces
    /\ navGeoCache \in GeoCacheStarts
    /\ navWhich = 1
    /\ navPc = "geocode"
    /\ navGeo = <<Unresolved, Unresolved>>
    /\ navQueries = << >>
    /\ navEngine = 0
    /\ navProvider = 0
    /\ navReply = NoResponse

\* geocode_place has returned geo for the place being resolved, lines 428-433 and
\* 534-539: a place not found ends the request; after the start the end is
\* resolved; after the end the routes are asked for
NavGeocodeReturned(geo) ==
    /\ navGeo' = [navGeo EXCEPT ![navWhich] = Resolved(geo)]
    /\ IF not_found(geo)
       THEN /\ navReply' = [kind |-> "response",
                            error |-> Some(IF navWhich = 1 THEN "Start location not found"
                                           ELSE "End location not found"),
                            routes |-> << >>]
            /\ navPc' = "done"
            /\ UNCHANGED navWhich
       ELSE IF navWhich = 1
       THEN /\ navWhich' = 2
            /\ navPc' = "geocode"
            /\ UNCHANGED navReply
       ELSE /\ navPc' = "osrm"
            /\ UNCHANGED <<navWhich, navReply>>

\* geocode_place, lines 129-146: the "lat,lng" text and the cache
NavGeocodeStart ==
    /\ navPc = "geocode"
    /\ LET place  == navPlace[navWhich]
           direct == direct_lat_lng(place)
           got    == cache_get(navGeoCache, geocode_key(place), now)
       IN  IF direct # None
           THEN /\ NavGeocodeReturned(direct)
                /\ UNCHANGED navGeoCache
           ELSE /\ navGeoCache' = got.cache
                /\ IF got.val # None
                   THEN NavGeocodeReturned(got.val)
                   ELSE /\ navPc' = "nominatim"
                        /\ UNCHANGED <<navGeo, navWhich, navReply>>
    /\ UNCHANGED <<navHandler, navPlace, navQueries, navEngine, navProvider, notNavVars>>

\* geocode_place, lines 148-166: the first service is asked once
NavNominatimReply ==
    /\ navPc = "nominatim"
    /\ navQueries' = Append(navQueries, <<"nominatim", Strip(navPlace[navWhich])>>)
    /\ \E reply \in ServiceReplies :
        IF reply.kind = "found"
        THEN /\ navGeoCache' = cache_set(navGeoCache, geocode_key(navPlace[navWhich]),
                                         GEOCODE_TTL, reply.val, now)
             /\ NavGeocodeReturned(reply.val)
        ELSE /\ navPc' = "photon"
             /\ UNCHANGED <<navGeoCache, navGeo, navWhich, navReply>>
    /\ UNCHANGED <<navHandler, navPlace, navEngine, navProvider, notNavVars>>

\* geocode_place, lines 169-189: the second service is asked once
NavPhotonReply ==
    /\ navPc = "photon"
    /\ navQueries' = Append(navQueries, <<"photon", Strip(navPlace[navWhich])>>)
    /\ \E reply \in ServiceReplies :
        IF reply.kind = "found"
        THEN /\ navGeoCache' = cache_set(navGeoCache, geocode_key(navPlace[navWhich]),
                                         GEOCODE_TTL, reply.val, now)
             /\ NavGeocodeReturned(reply.val)
        ELSE /\ NavGeocodeReturned(None)
             /\ UNCHANGED navGeoCache
    /\ UNCHANGED <<navHandler, navPlace, navEngine, navProvider, notNavVars>>

\* osrm_get_routes_cached as the handlers call it, lines 442-450 and 545-552: a
\* cached list, or one request to the engine that gives routes, no routes, or
\* an exception
NavEngine ==
    /\ navPc = "osrm"
    /\ \E outcome \in {"cached", "routes", "empty", "raise"} :
        /\ navEngine' = IF outcome = "cached" THEN navEngine ELSE navEngine + 1
        /\ IF outcome = "raise"
           THEN /\ navReply' = [kind |-> "raise", error |-> None, routes |-> << >>]
                /\ navPc' = "done"
           ELSE IF outcome = "empty"
           THEN /\ navReply' = [kind |-> "response", error |-> None, routes |-> << >>]
                /\ navPc' = "done"
           ELSE IF navHandler = "navigate_fast"
           THEN /\ navReply' = [kind |-> "response", error |-> None, routes |-> <<1>>]
                /\ navPc' = "done"
           ELSE /\ navPc' = "aqi"
                /\ UNCHANGED navReply
    /\ UNCHANGED <<navHandler, navPlace, navGeoCache, navWhich, navGeo, navQueries,
                   navProvider, notNavVars>>

\* navigate, lines 553-595: the quality lookups of the routes, then the response
NavQuality ==
    /\ navPc = "aqi"
    /\ \E k \in 0..MaxNavLookups : navProvider' = k
    /\ navReply' = [kind |-> "response", error |-> None, routes |-> <<1>>]
    /\ navPc' = "done"
    /\ UNCHANGED <<navHandler, navPlace, navGeoCache, navWhich, navGeo, navQueries,
                   navEngine, notNavVars>>

NavNext ==
    \/ NavGeocodeStart
    \/ NavNominatimReply
    \/ NavPhotonReply
    \/ NavEngine
    \/ NavQuality

\* a place of the request failed to resolve
PlaceFailed == navGeo[1].kind = "failed" \/ navGeo[2].kind = "failed"

\* no geocoding query occurs twice in the request
NoQueryRepeated ==
    \A i \in 1..Len(navQueries) : \A j \in 1..Len(navQueries) :
        navQueries[i] = navQueries[j] => i = j

\* C16: when the start or the end place fails to resolve, the request ends with a
\* location-not-found error and an empty route list, the routing engine and the
\* quality provider have not been queried and no geocoding query was repeated;
\* the engine is queried only after both places resolved
C16_NotFoundEndsRequest ==
    /\ PlaceFailed =>
          /\ navPc = "done"
          /\ navReply.kind = "response"
          /\ navReply.error \in {Some("Start location not found"),
                                 Some("End location not found")}
          /\ navReply.routes = << >>
          /\ navEngine = 0 /\ navProvider = 0
          /\ NoQueryRepeated
    /\ (navEngine > 0 \/ navPc \in {"osrm", "aqi"}) =>
          navGeo[1].kind = "found" /\ navGeo[2].kind = "found"

\* the start resolved through a service and the end failed at both services
C16_Witness ==
    /\ navPc = "done"
    /\ navGeo[1].kind = "found" /\ navGeo[2].kind = "failed"
    /\ Len(navQueries) >= 3

(***************************************************************************)
(* INSTRUCTION TEXT                                                        *)
(*                                                                         *)
(* A text is the sequence of its words: "Start onto Main St" is            *)
(* <<"Start", "onto", "Main", "St">>.  A road name and a modifier are      *)
(* texts, empty when the step has none; the exit is None or Some(n).       *)
(***************************************************************************)

\* the largest exit number of a step
MaxExit == 2

ManeuverTypes ==
    { "depart", "arrive", "turn", "new name", "continue", "merge", "on ramp", "off ramp",
      "fork", "roundabout", "rotary", "end of road", "notification", "", "Depart" }

Modifiers == { << >>, <<"left">>, <<"slight", "right">> }

RoadNames == { << >>, <<"Main", "St">> }

Exits == {None} \cup { Some(n) : n \in 1..MaxExit }

Steps == [type : ManeuverTypes, modifier : Modifiers, exit : Exits, name : RoadNames]

\* str.lower() of a maneuver type
lower_type(t) == IF t = "Depart" THEN "depart" ELSE t

\* f"{exit_no}"
ExitWord(n) == CASE n = 1 -> "1" [] n = 2 -> "2" [] n = 3 -> "3" [] OTHER -> "n"

\* onto_road(txt) of _build_instruction
onto_road(txt, road_name) ==
    IF road_name # << >> THEN txt \o <<"onto">> \o road_name ELSE txt

\* routing_service.py _build_instruction(step)
build_instruction(step) ==
    LET step_type == lower_type(step.type)
        modifier  == step.modifier
        road_name == step.name
        with(txt) == onto_road(txt, road_name)
    IN  CASE step_type = "depart" -> with(<<"Start">>)
          [] step_type = "arrive" -> <<"You", "have", "arrived", "at", "your", "destination">>
          [] step_type = "turn" -> with(<<"Turn">> \o modifier)
          [] step_type = "new name" -> with(<<"Continue">>)
          [] step_type = "continue" ->
                IF modifier # << >> THEN with(<<"Continue">> \o modifier)
                ELSE with(<<"Continue", "straight">>)
          [] step_type = "merge" -> with(<<"Merge">> \o modifier)
          [] step_type = "on ramp" -> with(<<"Take", "the", "ramp">> \o modifier)
          [] step_type = "off ramp" -> with(<<"Take", "the", "exit">> \o modifier)
          [] step_type = "fork" ->
                IF modifier # << >> THEN with(<<"Keep">> \o modifier \o <<"at", "the", "fork">>)
                ELSE with(<<"Keep", "at", "the", "fork">>)
          [] step_type = "roundabout" ->
                IF step.exit # None
                THEN <<"At", "the", "roundabout,", "take", "exit", ExitWord(Val(step.exit))>>
                ELSE <<"Enter", "the", "roundabout">>
          [] step_type = "rotary" ->
                IF step.exit # None
                THEN <<"At", "the", "rotary,", "take", "exit", ExitWord(Val(step.exit))>>
                ELSE <<"Enter", "the", "rotary">>
          [] step_type = "end of road" ->
                with(<<"At", "the", "end", "of", "the", "road,", "turn">> \o modifier)
          [] OTHER ->
                IF road_name # << >> THEN <<"Continue", "on">> \o road_name
                ELSE <<"Continue">>

\* routes.py build_turn_by_turn_steps, lines 387-408: the text of one step
turn_by_turn_text(step) ==
    LET m_type == step.type
        base   == CASE m_type = "turn" -> <<"Turn">>
                    [] m_type = "merge" -> <<"Merge">>
                    [] m_type = "roundabout" -> <<"Enter", "the", "roundabout">>
                    [] OTHER -> <<"Continue">>
    IN  IF m_type = "depart" THEN <<"Start", "moving">>
        ELSE IF m_type = "arrive"
        THEN <<"You", "have", "arrived", "at", "your", "destination">>
        ELSE base \o step.modifier
                  \o (IF step.name # << >> THEN <<"onto">> \o step.name ELSE << >>)

InstrIdle ==
    /\ instrImpl = "idle"
    /\ instrStep = [type |-> "", modifier |-> << >>, exit |-> None, name |-> << >>]
    /\ instrText = Pending

InstrInit ==
    /\ instrImpl \in {"routing_service", "routes"}
    /\ instrStep \in Steps
    /\ instrText = Pending

\* routing_service.get_osrm_routes builds the instruction of a step
BuildInstruction ==
    /\ instrImpl = "routing_service" /\ instrText.kind = "pending"
    /\ instrText' = [kind |-> "return", val |-> build_instruction(instrStep)]
    /\ UNCHANGED <<instrImpl, instrStep, notInstrVars>>

\* routes.build_turn_by_turn_steps builds the text of a step
BuildTurnByTurnStep ==
    /\ instrImpl = "routes" /\ instrText.kind = "pending"
    /\ instrText' = [kind |-> "return", val |-> turn_by_turn_text(instrStep)]
    /\ UNCHANGED <<instrImpl, instrStep, notInstrVars>>

InstrNext ==
    \/ BuildInstruction
    \/ BuildTurnByTurnStep

\* the types that have a template of their own in the table
TemplateTypes == {"turn", "merge", "on ramp", "off ramp", "fork", "end of road"}

ArrivalPhrase == <<"You", "have", "arrived", "at", "your", "destination">>

\* the rows of the table for a step with a lower-case type: depart gives "Start"
\* (the road name may follow); arrive gives the arrival phrase; roundabout and
\* rotary give "... take exit N" with an exit number and the entry phrase without;
\* a type without a row gives "Continue on {name}" or bare "Continue"
FollowsTable(step, text) ==
    CASE step.type = "depart" -> text = onto_road(<<"Start">>, step.name) \/ text = <<"Start">>
      [] step.type = "arrive" -> text = ArrivalPhrase
      [] step.type \in {"roundabout", "rotary"} ->
            IF step.exit # None
            THEN /\ Len(text) >= 3
                 /\ SubSeq(text, Len(text) - 2, Len(text))
                        = <<"take", "exit", ExitWord(Val(step.exit))>>
            ELSE text = <<"Enter", "the", step.type>>
      [] step.type \in TemplateTypes -> TRUE
      [] OTHER -> text = IF step.name # << >> THEN <<"Continue", "on">> \o step.name
                         ELSE <<"Continue">>

\* C17 as stated: the text built for a step follows the table, in both builders
C17_TextFollowsTable ==
    (instrText.kind = "return" /\ instrStep.type = lower_type(instrStep.type)) =>
        FollowsTable(instrStep, instrText.val)

\* what the code does keep: both builders give the arrival phrase for arrive, and
\* _build_instruction follows the rows for depart, roundabout, rotary and the
\* types it does not name
C17_RowsKept ==
    (instrText.kind = "return" /\ instrStep.type = lower_type(instrStep.type)) =>
        /\ instrStep.type = "arrive" => instrText.val = ArrivalPhrase
        /\ (instrImpl = "routing_service" /\ instrStep.type \notin {"new name", "continue"})
              => FollowsTable(instrStep, instrText.val)

(***************************************************************************)
(* POINT QUALITY OVER TIME                                                 *)
(*                                                                         *)
(* get_aqi_for_point is called again and again while the time moves on.    *)
(* A call reads the cache when it starts and stores when its provider      *)
(* thread has answered; other calls may start and finish in between.       *)
(***************************************************************************)

\* the most calls of one behaviour
MaxPqCalls == 3

\* the most time steps of one behaviour
MaxPqTicks == 2

\* the points asked for: the first two round to the same key
PqPoints == {RoutePoint(1), RoutePoint(2), RoutePoint(3)}

\* what the provider answers: no value, or one of two readings
PqAnswers == {None, Some(60), Some(70)}

\* the time moves on by a second or by the time an entry lives
PqTimeSteps == {1, AQI_TTL}

PqIdle ==
    /\ pqCache = EmptyDict
    /\ pqNow = 0
    /\ pqTicks = MaxPqTicks
    /\ pqCalls = << >>
    /\ pqStores = << >>

PqInit ==
    /\ pqCache = EmptyDict
    /\ pqNow = 0
    /\ pqTicks = 0
    /\ pqCalls = << >>
    /\ pqStores = << >>

\* get_aqi_for_point up to its await, lines 253-258: a cached value is returned, a
\* miss starts the provider thread
PqCallStart ==
    /\ Len(pqCalls) < MaxPqCalls
    /\ \E p \in PqPoints :
        LET got  == cache_get(pqCache, PointKey(p), pqNow)
            busy == { c \in 1..Len(pqCalls) : pqCalls[c].pc = "fetching" }
        IN  /\ pqCache' = got.cache
            /\ pqCalls' = Append(pqCalls,
                   [point |-> p, at |-> pqNow, seen |-> Len(pqStores),
                    open  |-> Cardinality(busy),
                    pc    |-> IF got.val # None THEN "done" ELSE "fetching",
                    asked |-> IF got.val # None THEN 0 ELSE 1,
                    val   |-> got.val])
    /\ UNCHANGED <<pqNow, pqTicks, pqStores, notPqVars>>

\* get_aqi_for_point after its await, lines 258-260: the answer is stored and returned
PqProviderAnswer(c) ==
    /\ pqCalls[c].pc = "fetching"
    /\ \E aqi \in PqAnswers :
        /\ pqCache' = cache_set(pqCache, PointKey(pqCalls[c].point), AQI_TTL, aqi, pqNow)
        /\ pqCalls' = [pqCalls EXCEPT ![c].pc = "done", ![c].val = aqi]
        /\ pqStores' = Append(pqStores, [key |-> PointKey(pqCalls[c].point),
                                         val |-> aqi, at |-> pqNow])
    /\ UNCHANGED <<pqNow, pqTicks, notPqVars>>

\* time.time() moves on
PqTick ==
    /\ pqTicks < MaxPqTicks
    /\ \E d \in PqTimeSteps : pqNow' = pqNow + d
    /\ pqTicks' = pqTicks + 1
    /\ UNCHANGED <<pqCache, pqCalls, pqStores, notPqVars>>

PqNext ==
    \/ PqCallStart
    \/ \E c \in 1..MaxPqCalls : c <= Len(pqCalls) /\ PqProviderAnswer(c)
    \/ PqTick

\* call c started after store s was made, for the key of s, no later than s.at + TTL
WithinTtlOf(c, s) ==
    /\ pqCalls[c].seen >= s
    /\ PointKey(pqCalls[c].point) = pqStores[s].key
    /\ pqCalls[c].at <= pqStores[s].at + AQI_TTL

\* C22 as stated: after a call obtained a value from the provider, every call made
\* within the TTL for a coordinate of the same key returns that value without
\* calling the provider; a call asks the provider at most once
C22_ReturnsObtainedValue ==
    /\ \A s \in 1..Len(pqStores) : \A c \in 1..Len(pqCalls) :
          (pqStores[s].val # None /\ WithinTtlOf(c, s)) =>
              /\ pqCalls[c].asked = 0
              /\ pqCalls[c].val = pqStores[s].val
    /\ \A c \in 1..Len(pqCalls) : pqCalls[c].asked <= 1

\* what the code does keep: a call made within the TTL of the answer stored last
\* for its key returns that answer, when it is a value, without calling the
\* provider; a call asks the provider at most once, and it asks only when nothing
\* was stored for its key, or the answer stored last was no value or has expired
C22_ReturnsLastObtained ==
    \A c \in 1..Len(pqCalls) :
        LET k      == PointKey(pqCalls[c].point)
            before == { s \in 1..pqCalls[c].seen : pqStores[s].key = k }
            last   == CHOOSE s \in before : \A s2 \in before : s2 <= s
        IN  /\ pqCalls[c].asked <= 1
            /\ (before # {} /\ pqStores[last].val # None
                   /\ pqCalls[c].at <= pqStores[last].at + AQI_TTL) =>
                  pqCalls[c].asked = 0 /\ pqCalls[c].val = pqStores[last].val
            /\ pqCalls[c].asked = 1 =>
                  \/ before = {}
                  \/ pqStores[last].val = None
                  \/ pqCalls[c].at > pqStores[last].at + AQI_TTL

\* what the code does keep when no call starts while another waits for the
\* provider: C22 as stated
C22_SequentialCalls ==
    (\A c \in 1..Len(pqCalls) : pqCalls[c].open = 0) => C22_ReturnsObtainedValue

(***************************************************************************)
(* SECONDARY SCORER                                                        *)
(*                                                                         *)
(* A candidate is [duration_s, max_aqi, aqi, score]; max_aqi, aqi and      *)
(* score are optional.  Within one call every score is a fraction over     *)
(* 20 * td * ad (td the duration range, ad the quality range, 1 when the   *)
(* range is degenerate) and is kept as its numerator:                      *)
(*   0.7 * (an/ad) + 0.3 * (tn/td) = (14*an*td + 6*tn*ad) / (20*td*ad)     *)
(*   0.7 * 1.5     + 0.3 * (tn/td) = (21*ad*td + 6*tn*ad) / (20*td*ad)     *)
(***************************************************************************)

\* the most candidates of a call
MaxScored == 3

ScoreDurations == {1, 2, 4}

ScoreMaxAqis == {None, Some(1), Some(3)}

ScoreAqis == {None, Some(1), Some(2)}

\* a candidate as the enrichment leaves it: the maximum of the readings is never
\* below their average
ScoreCandidates ==
    { r \in [duration_s : ScoreDurations, max_aqi : ScoreMaxAqis,
             aqi : ScoreAqis, score : {None}] :
        (r.max_aqi # None /\ r.aqi # None) => Val(r.max_aqi) >= Val(r.aqi) }

ScoreInputs == UNION { [1..n -> ScoreCandidates] : n \in 0..MaxScored }

RECURSIVE MaxOf(_)
\* max() of a non-empty sequence of numbers
MaxOf(s) == IF Len(s) = 1 THEN s[1] ELSE SeqMax(s[1], MaxOf(Tail(s)))

\* the quality value read from the average first
quality_of_avg_first(r) == IF r.aqi # None THEN r.aqi ELSE r.max_aqi

\* aqi = r.get("max_aqi"); if aqi is None: aqi = r.get("aqi")
quality_of(r) == IF r.max_aqi # None THEN r.max_aqi ELSE r.aqi

RECURSIVE aqi_vals(_)
\* the quality values of the candidates that have one, lines 69-74
aqi_vals(routes) ==
    IF routes = << >> THEN << >>
    ELSE IF quality_of(routes[1]) = None THEN aqi_vals(Tail(routes))
         ELSE <<Val(quality_of(routes[1]))>> \o aqi_vals(Tail(routes))

\* times = [r["duration_s"] for r in routes]
times(routes) == [i \in 1..Len(routes) |-> routes[i].duration_s]

\* norm(x, mn, mx) as <<numerator, denominator>>: 0.0 when mx == mn
norm(x, mn, mx) == IF mx = mn THEN <<0, 1>> ELSE <<x - mn, mx - mn>>

\* the duration range and the quality range of a call, 1 when degenerate
time_range(routes) == norm(MaxOf(times(routes)), MinOf(times(routes)), MaxOf(times(routes)))[2]

aqi_range(routes) ==
    norm(MaxOf(aqi_vals(routes)), MinOf(aqi_vals(routes)), MaxOf(aqi_vals(routes)))[2]

\* score = 0.7 * a_score + 0.3 * t_score of candidate r, as its numerator over
\* 20 * time_range * aqi_range; a_score = 1.5 when r has no quality value
score_of(routes, r) ==
    LET t == norm(r.duration_s, MinOf(times(routes)), MaxOf(times(routes)))
    IN  (IF quality_of(r) = None
         THEN 21 * aqi_range(routes) * time_range(routes)
         ELSE 14 * norm(Val(quality_of(r)), MinOf(aqi_vals(routes)),
                        MaxOf(aqi_vals(routes)))[1] * time_range(routes))
        + 6 * t[1] * aqi_range(routes)

RECURSIVE first_min_index(_, _)
\* the loop "if x < best: best = x; best_idx = i" over vals[1..upto]: the Python
\* index of the first smallest value
first_min_index(vals, upto) ==
    IF upto <= 1 THEN 0
    ELSE LET before == first_min_index(vals, upto - 1)
         IN  IF vals[upto] < vals[before + 1] THEN upto - 1 ELSE before

\* scoring.py pick_fastest_index(routes)
pick_fastest_index(routes) ==
    IF routes = << >> THEN 0 ELSE first_min_index(times(routes), Len(routes))

\* scoring.py pick_best_index(routes): the index returned
pick_best_index(routes) ==
    IF routes = << >> THEN 0
    ELSE IF aqi_vals(routes) = << >> THEN pick_fastest_index(routes)
    ELSE first_min_index([i \in 1..Len(routes) |-> score_of(routes, routes[i])], Len(routes))

\* the list after pick_best_index: r["score"] = score is set on every candidate
\* when the loop runs, lines 88-105
scored_in_place(routes) ==
    IF routes = << >> \/ aqi_vals(routes) = << >> THEN routes
    ELSE [i \in 1..Len(routes) |->
             [routes[i] EXCEPT !.score = Some(score_of(routes, routes[i]))]]

ScoreIdle ==
    /\ scRoutes = << >>
    /\ scIn = << >>
    /\ scBest = None
    /\ scPc = "idle"

\* the readings the provider gives for the sampled points of one route, the
\* points without a value left out (every list here has an integral mean)
AttachReadings == {<< >>, <<1>>, <<3>>, <<1, 3>>}

\* the routes handed to attach_aqi_to_routes carry no quality value yet
BareInputs ==
    UNION { [1..n -> { r \in ScoreCandidates : r.max_aqi = None /\ r.aqi = None }] :
              n \in 1..MaxScored }

\* aqi_service.py attach_aqi_to_routes(routes): the list after the call, which
\* is also the list returned; readings[i] are the values found for route i
attach_aqi_to_routes(routes, readings) ==
    [i \in 1..Len(routes) |->
        LET aqi_values == readings[i]
            avg_aqi == IF aqi_values = << >> THEN None
                       ELSE Some(SumOf(aqi_values) \div Len(aqi_values))
            max_aqi == IF aqi_values = << >> THEN None ELSE Some(MaxOf(aqi_values))
            shown   == IF max_aqi # None THEN max_aqi ELSE avg_aqi
            colour  == utils_aqi_to_color(IF shown = None THEN None ELSE Some(<<Val(shown), 1>>))
        IN  [duration_s |-> routes[i].duration_s, score |-> routes[i].score,
             aqi |-> avg_aqi, max_aqi |-> max_aqi,
             color |-> colour[1], color_name |-> colour[2],
             samples_used |-> Len(aqi_values)]]

ScoreInit ==
    /\ \/ scRoutes \in ScoreInputs /\ scPc = "call"
       \/ scRoutes \in BareInputs /\ scPc = "attach"
    /\ scIn = scRoutes
    /\ scBest = None

\* pick_best_index is called on the list
PickBest ==
    /\ scPc = "call"
    /\ scBest' = Some(pick_best_index(scRoutes))
    /\ scRoutes' = scored_in_place(scRoutes)
    /\ scPc' = "done"
    /\ UNCHANGED <<scIn, notScoreVars>>

\* attach_aqi_to_routes is called on the list
AttachAqi ==
    /\ scPc = "attach"
    /\ \E readings \in [1..Len(scRoutes) -> AttachReadings] :
          scRoutes' = attach_aqi_to_routes(scRoutes, readings)
    /\ scPc' = "attached"
    /\ UNCHANGED <<scIn, scBest, notScoreVars>>

ScoreNext == PickBest \/ AttachAqi

\* ---- the scorer as the documentation words it

\* the worse of the maximum and the average quality of a candidate
WorseQuality(r) ==
    IF r.max_aqi = None THEN r.aqi
    ELSE IF r.aqi = None THEN r.max_aqi
    ELSE Some(SeqMax(Val(r.max_aqi), Val(r.aqi)))

HasQuality(r) == WorseQuality(r) # None

\* 0.3 * timeScore + 0.7 * qualityScore of candidate i of the list, each
\* min-max normalised over the candidates (0 on a degenerate range, 1.5 for a
\* candidate without quality), as its numerator over 20 * dt * dq
WeightedScore(routes, i) ==
    LET ds == { routes[j].duration_s : j \in 1..Len(routes) }
        qs == { Val(WorseQuality(routes[j])) : j \in { k \in 1..Len(routes) : HasQuality(routes[k]) } }
        lo(S) == CHOOSE x \in S : \A y \in S : x <= y
        hi(S) == CHOOSE x \in S : \A y \in S : x >= y
        dt == IF hi(ds) = lo(ds) THEN 1 ELSE hi(ds) - lo(ds)
        dq == IF qs = {} \/ hi(qs) = lo(qs) THEN 1 ELSE hi(qs) - lo(qs)
        tn == IF hi(ds) = lo(ds) THEN 0 ELSE routes[i].duration_s - lo(ds)
        qn == IF ~HasQuality(routes[i]) \/ hi(qs) = lo(qs) THEN 0
              ELSE Val(WorseQuality(routes[i])) - lo(qs)
    IN  (IF HasQuality(routes[i]) THEN 14 * qn * dt ELSE 21 * dq * dt) + 6 * tn * dq

\* i is the first index of the list at which f is smallest
FirstMinimiser(routes, i, f(_)) ==
    /\ i \in 1..Len(routes)
    /\ \A j \in 1..Len(routes) : f(i) <= f(j)
    /\ \A j \in 1..(i - 1) : f(i) < f(j)

C24_InputsUnchanged ==
    scPc \in {"done", "attached"} => scRoutes = scIn

(***************************************************************************)
(* ONE CALL OR TWO                                                         *)
(*                                                                         *)
(* An alternative of the engine is [duration, quality]: quality is what    *)
(* aggregate_route_aqi_async gives for its geometry, the same in both      *)
(* handlers (the lookups behind it are the subject of the enrichment       *)
(* flows).  A route record carries as id the position of its alternative   *)
(* in the engine's answer, which stands for geometry, distance and steps.  *)
(* The handlers are taken from the engine's answer on; what lies before    *)
(* it is the request head.                                                 *)
(***************************************************************************)

WayDurations == {1, 2, 3}

\* 0.65 * 1/1 + 0.35 * 200/70 = 0.65 * 2/1 + 0.35 * 70/70: the grid holds
\* candidates of different duration with the same score
WayQualities == {None, Some(70), Some(200)}

WayEngineAnswers ==
    UNION { [1..n -> [duration : WayDurations, quality : WayQualities]] : n \in 1..MaxAlts }

\* the segments compute_aqi_segments gives for the geometry of an alternative
segments_of(id) == <<id>>

\* the record navigate_fast appends for alternative i, routes.py:453-461
fast_record(osrm_routes, i) ==
    [id |-> i, duration_s |-> Some(osrm_routes[i].duration), avg_aqi |-> None,
     aqi_color |-> "gray", aqi_segments |-> << >>]

\* the record navigate builds for alternative i before the lookups,
\* routes.py:562-567
temp_record(osrm_routes, i) == [id |-> i, duration_s |-> Some(osrm_routes[i].duration)]

\* {**r, "avg_aqi": ..., "aqi_color": ..., "aqi_segments": ...}, routes.py:509-515
\* and 577-583: a new record, quality being the aggregate for the geometry of r
with_quality(r, quality) ==
    [id |-> r.id, duration_s |-> r.duration_s,
     avg_aqi |-> quality,
     aqi_color |-> aqi_to_color(IF quality = None THEN None ELSE Some(<<Val(quality), 1>>)),
     aqi_segments |-> segments_of(r.id)]

\* the routes of navigate_fast: sorted by duration_s, the first
\* MAX_ALTERNATIVES_TO_RETURN kept, routes.py:449-466
navigate_fast_routes(osrm_routes) ==
    SliceTo(SortedByDuration([i \in 1..Len(osrm_routes) |-> fast_record(osrm_routes, i)]),
            MAX_ALTERNATIVES_TO_RETURN)

\* the routes of aqi_for_routes for the payload routes, routes.py:489-517
aqi_for_routes_routes(routes, quality_of_id) ==
    rank_routes_best([i \in 1..Len(routes) |-> with_quality(routes[i], quality_of_id[routes[i].id])],
                     MAX_ALTERNATIVES_TO_RETURN)

\* the routes of navigate, routes.py:554-586
navigate_routes(osrm_routes) ==
    rank_routes_best([i \in 1..Len(osrm_routes) |->
                         with_quality(temp_record(osrm_routes, i), osrm_routes[i].quality)],
                     MAX_ALTERNATIVES_TO_RETURN)

WaysIdle ==
    /\ wayEngine = << >>
    /\ wayFast = Pending
    /\ wayTwoStep = Pending
    /\ wayFull = Pending

WaysInit ==
    /\ wayEngine \in WayEngineAnswers
    /\ wayFast = Pending
    /\ wayTwoStep = Pending
    /\ wayFull = Pending

\* GET /navigate_fast returns its routes
NavigateFast ==
    /\ wayFast.kind = "pending"
    /\ wayFast' = [kind |-> "return", val |-> navigate_fast_routes(wayEngine)]
    /\ UNCHANGED <<wayEngine, wayTwoStep, wayFull, notWaysVars>>

\* POST /aqi_for_routes is called with the routes navigate_fast returned
AqiForRoutes ==
    /\ wayFast.kind = "return"
    /\ wayTwoStep.kind = "pending"
    /\ wayTwoStep' = [kind |-> "return",
                      val |-> aqi_for_routes_routes(wayFast.val,
                                 [i \in 1..Len(wayEngine) |-> wayEngine[i].quality])]
    /\ UNCHANGED <<wayEngine, wayFast, wayFull, notWaysVars>>

\* GET /navigate returns its routes
Navigate ==
    /\ wayFull.kind = "pending"
    /\ wayFull' = [kind |-> "return", val |-> navigate_routes(wayEngine)]
    /\ UNCHANGED <<wayEngine, wayFast, wayTwoStep, notWaysVars>>

WaysNext == NavigateFast \/ AqiForRoutes \/ Navigate

\* both ways have returned
BothReturned == wayTwoStep.kind = "return" /\ wayFull.kind = "return"

\* the score rank_routes_best gives alternative i of the engine's answer when
\* all alternatives are ranked
FullScore(i) ==
    LET all == [k \in 1..Len(wayEngine) |->
                   [duration_s |-> Some(wayEngine[k].duration), avg_aqi |-> wayEngine[k].quality]]
    IN  route_score(all[i], min_duration(all), min_aqi(all))

\* no two alternatives of different duration have the same score
NoTieAcrossDurations ==
    \A i, j \in 1..Len(wayEngine) :
        wayEngine[i].duration # wayEngine[j].duration => FullScore(i) # FullScore(j)

\* C26 as stated: for any number of alternatives the list of navigate is the
\* list of aqi_for_routes applied to the routes of navigate_fast.
C26_Original ==
    BothReturned => wayTwoStep.val = wayFull.val

\* the lists agree whenever nothing is cut off
C26_SameWhenNothingCut ==
    (BothReturned /\ Len(wayEngine) <= MAX_ALTERNATIVES_TO_RETURN) => wayTwoStep.val = wayFull.val

\* the lists agree whenever no score is shared across durations
C26_SameWithoutTies ==
    (BothReturned /\ NoTieAcrossDurations) => wayTwoStep.val = wayFull.val

\* C26: when the engine answers with at most MAX_ALTERNATIVES_TO_RETURN
\* alternatives, no two of which differ in duration and agree in score, the
\* list of navigate is the list of aqi_for_routes applied to the routes of
\* navigate_fast; whatever the engine answers, the two lists have
\* min(n, MAX_ALTERNATIVES_TO_RETURN) routes each.
C26_SameUpToK ==
    BothReturned =>
        /\ Len(wayTwoStep.val) = SeqMin(Len(wayEngine), MAX_ALTERNATIVES_TO_RETURN)
        /\ Len(wayFull.val) = SeqMin(Len(wayEngine), MAX_ALTERNATIVES_TO_RETURN)
        /\ (Len(wayEngine) <= MAX_ALTERNATIVES_TO_RETURN /\ NoTieAcrossDurations)
              => wayTwoStep.val = wayFull.val

\* both ways returned the same list of MAX_ALTERNATIVES_TO_RETURN routes for an
\* answer that is not in duration order and is re-ranked by quality
C26_Witness ==
    /\ BothReturned
    /\ Len(wayEngine) = MAX_ALTERNATIVES_TO_RETURN
    /\ NoTieAcrossDurations
    /\ wayTwoStep.val = wayFull.val
    /\ wayFast.val[1].id # 1
    /\ wayFull.val[1].id # wayFast.val[1].id
    /\ \E i, j \in 1..Len(wayEngine) :
          i < j /\ wayEngine[i].duration = wayEngine[j].duration
                /\ FullScore(i) = FullScore(j)

(***************************************************************************)
(* SPECIFICATIONS                                                          *)
(***************************************************************************)

\* one call sequence of the cache component; the other components stay idle
InitCache ==
    CacheIdle /\ RankIdle /\ GeomIdle /\ AqiIdle /\ GeoIdle /\ OsrmIdle /\ EnrichIdle
    /\ ColorIdle /\ NavIdle /\ InstrIdle /\ PqIdle /\ ScoreIdle /\ WaysIdle

SpecCache == InitCache /\ [][CacheNext]_vars

\* one call sequence of the ranker component; the other components stay idle
InitRank ==
    CacheIdle /\ RankInit /\ GeomIdle /\ AqiIdle /\ GeoIdle /\ OsrmIdle /\ EnrichIdle
    /\ ColorIdle /\ NavIdle /\ InstrIdle /\ PqIdle /\ ScoreIdle /\ WaysIdle

SpecRank == InitRank /\ [][RankNext]_vars

\* one call sequence of the geometry component; the other components stay idle
InitGeom ==
    CacheIdle /\ RankIdle /\ GeomInit /\ AqiIdle /\ GeoIdle /\ OsrmIdle /\ EnrichIdle
    /\ ColorIdle /\ NavIdle /\ InstrIdle /\ PqIdle /\ ScoreIdle /\ WaysIdle

SpecGeom == InitGeom /\ [][GeomNext]_vars

\* one call sequence of the environmental sampler component; the other components stay idle
InitAqi ==
    CacheIdle /\ RankIdle /\ GeomIdle /\ AqiInit /\ GeoIdle /\ OsrmIdle /\ EnrichIdle
    /\ ColorIdle /\ NavIdle /\ InstrIdle /\ PqIdle /\ ScoreIdle /\ WaysIdle

SpecAqi == InitAqi /\ [][AqiNext]_vars

\* one call sequence of the place resolver component; the other components stay idle
InitGeo ==
    CacheIdle /\ RankIdle /\ GeomIdle /\ AqiIdle /\ GeoInit /\ OsrmIdle /\ EnrichIdle
    /\ ColorIdle /\ NavIdle /\ InstrIdle /\ PqIdle /\ ScoreIdle /\ WaysIdle

SpecGeo == InitGeo /\ [][GeoNext]_vars

\* one call sequence of the route retriever component; the other components stay idle
InitOsrm ==
    CacheIdle /\ RankIdle /\ GeomIdle /\ AqiIdle /\ GeoIdle /\ OsrmInit /\ EnrichIdle
    /\ ColorIdle /\ NavIdle /\ InstrIdle /\ PqIdle /\ ScoreIdle /\ WaysIdle

SpecOsrm == InitOsrm /\ [][OsrmNext]_vars

\* one call sequence of the enrichment component; the other components stay idle
InitEnrich ==
    CacheIdle /\ RankIdle /\ GeomIdle /\ AqiIdle /\ GeoIdle /\ OsrmIdle /\ EnrichInit
    /\ ColorIdle /\ NavIdle /\ InstrIdle /\ PqIdle /\ ScoreIdle /\ WaysIdle

SpecEnrich == InitEnrich /\ [][EnrichNext]_vars

\* one call sequence of the colour band component; the other components stay idle
InitColor ==
    CacheIdle /\ RankIdle /\ GeomIdle /\ AqiIdle /\ GeoIdle /\ OsrmIdle /\ EnrichIdle
    /\ ColorInit /\ NavIdle /\ InstrIdle /\ PqIdle /\ ScoreIdle /\ WaysIdle

SpecColor == InitColor /\ [][ColorNext]_vars

\* one call sequence of the request head component; the other components stay idle
InitNav ==
    CacheIdle /\ RankIdle /\ GeomIdle /\ AqiIdle /\ GeoIdle /\ OsrmIdle /\ EnrichIdle
    /\ ColorIdle /\ NavInit /\ InstrIdle /\ PqIdle /\ ScoreIdle /\ WaysIdle

SpecNav == InitNav /\ [][NavNext]_vars

\* one call sequence of the instruction text component; the other components stay idle
InitInstr ==
    CacheIdle /\ RankIdle /\ GeomIdle /\ AqiIdle /\ GeoIdle /\ OsrmIdle /\ EnrichIdle
    /\ ColorIdle /\ NavIdle /\ InstrInit /\ PqIdle /\ ScoreIdle /\ WaysIdle

SpecInstr == InitInstr /\ [][InstrNext]_vars

\* one call sequence of the point quality component; the other components stay idle
InitPq ==
    CacheIdle /\ RankIdle /\ GeomIdle /\ AqiIdle /\ GeoIdle /\ OsrmIdle /\ EnrichIdle
    /\ ColorIdle /\ NavIdle /\ InstrIdle /\ PqInit /\ ScoreIdle /\ WaysIdle

SpecPq == InitPq /\ [][PqNext]_vars

\* one call sequence of the secondary scorer component; the other components stay idle
InitScore ==
    CacheIdle /\ RankIdle /\ GeomIdle /\ AqiIdle /\ GeoIdle /\ OsrmIdle /\ EnrichIdle
    /\ ColorIdle /\ NavIdle /\ InstrIdle /\ PqIdle /\ ScoreInit /\ WaysIdle

SpecScore == InitScore /\ [][ScoreNext]_vars

\* one call sequence of the one call or two component; the other components stay idle
InitWays ==
    CacheIdle /\ RankIdle /\ GeomIdle /\ AqiIdle /\ GeoIdle /\ OsrmIdle /\ EnrichIdle
    /\ ColorIdle /\ NavIdle /\ InstrIdle /\ PqIdle /\ ScoreIdle /\ WaysInit

SpecWays == InitWays /\ [][WaysNext]_vars

====
